---- MODULE Spec2Model ----
(***************************************************************************)
(* Model of scripts/bambu_3mf.py: the conversion of a standard 3MF package *)
(* into the Bambu Studio layout.                                           *)
(*                                                                         *)
(* Python strings are TLA+ strings, Python lists are sequences, a Python    *)
(* dict is the sequence of its items in insertion order.                   *)
(***************************************************************************)
EXTENDS Integers, Sequences, FiniteSets, TLC

VARIABLES
    pc,             \* position of the run that is being modelled
    state,          \* encode_paint_color: the argument
    encoded,        \* encode_paint_color: the returned string
    bm_groups,      \* _extract_color_map: the basematerials elements of the part
    color_map,      \* _extract_color_map: the returned dict
    objects,        \* parsed.objects: the argument of the mapper and the merger
    extruder_map,   \* map_colors_to_extruders: the returned dict
    merge_result,   \* merge_objects_painted: the returned triple, or the exception
    zf,             \* parse_input_3mf: the input archive
    all_objects,    \* parse_input_3mf: the resource table of the root part
    heap,           \* the MeshObjects created so far; a reference is an index
    build_items,    \* parse_input_3mf: references to the objects collected so far
    resolved,       \* the list _resolve_object returned for each build item so far
    exception,      \* the uncaught exception that ended the run, or None
    reported,       \* the errors and warnings the run has written for its caller
    model_path,     \* parse_input_3mf: the archive entry read as the main model
    painted,        \* write_bambu_3mf: True in painted mode, False in multi-object mode
    thumbnails,     \* write_bambu_3mf: the thumbnail dict, file name -> image
    output          \* the output archive: whether it was opened, the entries written

vars == <<pc, state, encoded, bm_groups, color_map, objects, extruder_map, merge_result,
          zf, all_objects, heap, build_items, resolved, exception, reported,
          model_path, painted, thumbnails, output>>

parseVars == <<zf, all_objects, heap, build_items, resolved, exception, reported,
               model_path>>

writeVars == <<painted, thumbnails, output>>

\* A value a variable holds while the operation that sets it has not run.
NotRun == "not run"

(***************************************************************************)
(* Bounds of the model.                                                    *)
(***************************************************************************)
MaxState == 63      \* encode_paint_color is applied to the states 0..MaxState
MaxGroups == 2      \* basematerials elements in one part
MaxObjs == 3        \* objects handed to the extruder mapper and the merger
MaxItems == 2       \* build items of the root model
MaxDepth == 3       \* nested _resolve_object calls the interpreter allows

(***************************************************************************)
(* Python helpers.                                                         *)
(***************************************************************************)
\* None, and the value of an attribute the element does not carry.
None == "<None>"

\* bool(s) for a string or None: None and "" are false.
Truthy(s) == s # None /\ s # ""

\* A dict is the sequence of its items <<key, value>> in insertion order,
\* which is the order Python iterates it in.
EmptyDict == <<>>

DictKeys(d) == [i \in 1..Len(d) |-> d[i][1]]

DictHas(d, k) == \E i \in 1..Len(d) : d[i][1] = k

\* d.get(k, default)
DictGet(d, k, default) ==
    IF DictHas(d, k)
    THEN d[CHOOSE i \in 1..Len(d) : d[i][1] = k][2]
    ELSE default

\* d[k] = v: a key already present keeps its position.
DictSet(d, k, v) ==
    IF DictHas(d, k)
    THEN [i \in 1..Len(d) |-> IF d[i][1] = k THEN <<k, v>> ELSE d[i]]
    ELSE Append(d, <<k, v>>)

\* {**a, **b}
RECURSIVE DictMerge(_, _)
DictMerge(a, b) ==
    IF b = <<>> THEN a
    ELSE DictMerge(DictSet(a, Head(b)[1], Head(b)[2]), Tail(b))

\* Mutant: the last of the keys with the largest value wins.
DictArgMaxLast(d) ==
    d[CHOOSE i \in 1..Len(d) :
          /\ \A j \in 1..Len(d) : d[j][2] <= d[i][2]
          /\ \A j \in (i + 1)..Len(d) : d[j][2] < d[i][2]][1]

\* max(d, key=d.get): the first key, in iteration order, whose value is
\* the largest.  Only called on a non-empty dict.
DictArgMax(d) ==
    d[CHOOSE i \in 1..Len(d) :
          /\ \A j \in 1..Len(d) : d[j][2] <= d[i][2]
          /\ \A j \in 1..(i - 1) : d[j][2] < d[i][2]][1]

\* The lists of at most n elements of S.
SeqsUpTo(S, n) == UNION { [1..k -> S] : k \in 0..n }

\* list(reversed(s))
Reversed(s) == [i \in 1..Len(s) |-> s[Len(s) + 1 - i]]

\* "".join(parts) for a list of strings
RECURSIVE Join(_)
Join(parts) == IF parts = <<>> THEN "" ELSE Head(parts) \o Join(Tail(parts))

\* format(n, "X") for 0 <= n < 16: one upper-case hexadecimal digit.
HexDigits == "0123456789ABCDEF"
FormatX(n) == SubSeq(HexDigits, n + 1, n + 1)

(***************************************************************************)
(* encode_paint_color                                                      *)
(***************************************************************************)
\* The while loop of the extended form: one "F" per 15 taken off ext_value,
\* then the digit of what is left.
RECURSIVE ExtNibbles(_, _)
ExtNibbles(ext_value, nibbles) ==
    IF ext_value >= 15
    THEN ExtNibbles(ext_value - 15, Append(nibbles, "F"))
    ELSE Append(nibbles, FormatX(ext_value))

\* (state & 1) * 4 + ((state >> 1) & 1) * 8
LeafNibble(s) == (s % 2) * 4 + ((s \div 2) % 2) * 8

\* Mutant: the nibble list is joined without being reversed.
encode_paint_color_unreversed(s) ==
    IF s = 0 THEN ""
    ELSE IF s <= 2 THEN FormatX(LeafNibble(s))
    ELSE Join(ExtNibbles(s - 3, <<"C">>))

\* Mutant: the continuation loop tests ext_value > 15 instead of >= 15.
RECURSIVE ExtNibblesOffByOne(_, _)
ExtNibblesOffByOne(ext_value, nibbles) ==
    IF ext_value > 15
    THEN ExtNibblesOffByOne(ext_value - 15, Append(nibbles, "F"))
    ELSE Append(nibbles, FormatX(ext_value))

encode_paint_color_off_by_one(s) ==
    IF s = 0 THEN ""
    ELSE IF s <= 2 THEN FormatX(LeafNibble(s))
    ELSE Join(Reversed(ExtNibblesOffByOne(s - 3, <<"C">>)))

encode_paint_color(s) ==
    IF s = 0 THEN ""
    ELSE IF s <= 2 THEN FormatX(LeafNibble(s))
    ELSE Join(Reversed(ExtNibbles(s - 3, <<"C">>)))

(***************************************************************************)
(* The consumer's leaf decoding rule (TriangleSelector), as the            *)
(* specification states it: nibbles are read from the last character to    *)
(* the first.  -1 stands for a string the rule does not accept.            *)
(***************************************************************************)
HexValue(c) == CHOOSE n \in 0..15 : FormatX(n) = c

CharAt(s, i) == SubSeq(s, i, i)

\* The sum of the extension nibbles from position i down, and the position
\* of the last nibble read (0 when a nibble is missing).
RECURSIVE DecodeExtension(_, _)
DecodeExtension(s, i) ==
    IF i < 1 THEN [sum |-> 0, last |-> 0]
    ELSE LET v == HexValue(CharAt(s, i))
         IN  IF v = 15
             THEN LET rest == DecodeExtension(s, i - 1)
                  IN  [sum |-> v + rest.sum, last |-> rest.last]
             ELSE [sum |-> v, last |-> i]

DecodePaintColor(s) ==
    IF s = "" THEN 0
    ELSE LET first == HexValue(CharAt(s, Len(s)))
             split == first % 4
             bits  == first \div 4
         IN  IF split # 0 THEN -1
             ELSE IF bits < 3
                  THEN (IF Len(s) = 1 THEN bits ELSE -1)
                  ELSE LET ext == DecodeExtension(s, Len(s) - 1)
                       IN  IF ext.last = 1 THEN 3 + ext.sum ELSE -1

(***************************************************************************)
(* _extract_color_map                                                      *)
(*                                                                         *)
(* A basematerials element is [id, bases]: its id attribute and the        *)
(* displaycolor attribute (or None) of each base child, in document order. *)
(***************************************************************************)
DefaultColor == "#808080"

\* Mutant: the alpha suffix is kept.
NormalizeColorKeepAlpha(display_color) == display_color

\* lines 139-140: "#RRGGBBAA" loses its alpha digits.
NormalizeColor(display_color) ==
    IF Len(display_color) = 9 THEN SubSeq(display_color, 1, 7) ELSE display_color

\* base.get("displaycolor", "#808080")
DisplayColor(base) == IF base = None THEN DefaultColor ELSE base

\* The inner loop: enumerate(bm.findall(base)), i counted from 0.
RECURSIVE AddBases(_, _, _, _)
AddBases(cmap, res_id, bases, i) ==
    IF i >= Len(bases) THEN cmap
    ELSE AddBases(DictSet(cmap, <<res_id, i>>, NormalizeColor(DisplayColor(bases[i + 1]))),
                  res_id, bases, i + 1)

RECURSIVE AddGroups(_, _)
AddGroups(cmap, groups) ==
    IF groups = <<>> THEN cmap
    ELSE AddGroups(AddBases(cmap, Head(groups).id, Head(groups).bases, 0), Tail(groups))

_extract_color_map(groups) == AddGroups(EmptyDict, groups)

(***************************************************************************)
(* map_colors_to_extruders                                                 *)
(*                                                                         *)
(* A MeshObject is the record [name, obj_id, vertices, triangles, color,   *)
(* transform] of the dataclass.                                            *)
(***************************************************************************)
\* Mutant: the slot is the number of objects walked so far, not the number
\* of colors seen so far.
NextExtruderByPosition(seen, position) == position

\* line 249: len(seen) + 1.  position is the 1-based index of the object
\* in the walk; the code does not use it.
NextExtruder(seen, position) == Len(seen) + 1

RECURSIVE MapColorsFrom(_, _, _)
MapColorsFrom(seen, objs, i) ==
    IF i > Len(objs) THEN seen
    ELSE MapColorsFrom(
             IF DictHas(seen, objs[i].color)
             THEN seen
             ELSE DictSet(seen, objs[i].color, NextExtruder(seen, i)),
             objs, i + 1)

map_colors_to_extruders(objs) == MapColorsFrom(EmptyDict, objs, 1)

(***************************************************************************)
(* merge_objects_painted                                                   *)
(***************************************************************************)
\* lines 297-299: triangles per color, keyed in first-seen order.
RECURSIVE ColorTriCount(_, _)
ColorTriCount(count, objs) ==
    IF objs = <<>> THEN count
    ELSE LET obj == Head(objs)
         IN  ColorTriCount(
                 DictSet(count, obj.color,
                         DictGet(count, obj.color, 0) + Len(obj.triangles)),
                 Tail(objs))

\* Mutant: the offset is read after the object's vertices were appended.
TriangleOffsetAfterExtend(all_vertices, obj) == Len(all_vertices) + Len(obj.vertices)

\* line 310: offset = len(all_vertices), read before the extend.
TriangleOffset(all_vertices, obj) == Len(all_vertices)

\* Mutant: every triangle is painted, the default extruder's too.
PaintColorAlways(ext_num, default_extruder) == encode_paint_color(ext_num)

\* lines 316-319
PaintColorFor(ext_num, default_extruder) ==
    IF ext_num = default_extruder THEN "" ELSE encode_paint_color(ext_num)

\* Mutant: the triangles are appended with the indices they had.
ShiftTrianglesByNothing(triangles, offset) == triangles

\* lines 321-323: the object's triangles shifted by offset.
ShiftTriangles(triangles, offset) ==
    [t \in 1..Len(triangles) |->
        <<triangles[t][1] + offset, triangles[t][2] + offset, triangles[t][3] + offset>>]

\* lines 309-323: acc is [all_vertices, all_triangles, paint_colors].
\* extruder_map[obj.color] raises KeyError for a color the map lacks.
RECURSIVE MergeLoop(_, _, _, _)
MergeLoop(acc, objs, emap, default_extruder) ==
    IF objs = <<>> THEN acc
    ELSE LET obj == Head(objs)
         IN  IF ~DictHas(emap, obj.color) THEN [exception |-> "KeyError"]
             ELSE LET offset  == TriangleOffset(acc.all_vertices, obj)
                      ext_num == DictGet(emap, obj.color, None)
                      paint   == PaintColorFor(ext_num, default_extruder)
                  IN  MergeLoop(
                          [exception     |-> None,
                           all_vertices  |-> acc.all_vertices \o obj.vertices,
                           all_triangles |-> acc.all_triangles
                                                 \o ShiftTriangles(obj.triangles, offset),
                           paint_colors  |-> acc.paint_colors
                                                 \o [t \in 1..Len(obj.triangles) |-> paint]],
                          Tail(objs), emap, default_extruder)

\* A list object is named by the input object that holds it and the field it
\* is held in; input 0 is the call itself, whose lists no input holds.
ListOfInput(i, field) == [input |-> i, field |-> field]

\* Mutant: all_vertices names the vertex list of the first input.
AllVerticesOfFirstInput(objs) == ListOfInput(1, "vertices")

\* line 304: all_vertices = [] is a list of the call's own.
AllVerticesList(objs) == ListOfInput(0, "all_vertices")

\* line 305: all_triangles = [] is a list of the call's own.
AllTrianglesList(objs) == ListOfInput(0, "all_triangles")

\* lines 311, 322: extend and append change the list the name refers to, so
\* an input holding that list holds the merged sequence after the call.  No
\* other statement of the call assigns to an input or to the extruder map.
InputsAfterMerge(objs, m) ==
    IF m.exception # None THEN objs
    ELSE [i \in 1..Len(objs) |->
             [objs[i] EXCEPT
                 !.vertices  = IF m.lists.vertices = ListOfInput(i, "vertices")
                               THEN m.merged.vertices ELSE @,
                 !.triangles = IF m.lists.triangles = ListOfInput(i, "triangles")
                               THEN m.merged.triangles ELSE @]]

\* The returned triple (merged, paint_colors, default_extruder), or the
\* exception the call ends with: max() of an empty dict raises ValueError.
\* lists names the list objects merged.vertices and merged.triangles are.
merge_objects_painted(objs, emap) ==
    LET color_tri_count == ColorTriCount(EmptyDict, objs)
    IN  IF color_tri_count = <<>> THEN [exception |-> "ValueError"]
        ELSE LET default_color == DictArgMax(color_tri_count)
             IN  IF ~DictHas(emap, default_color) THEN [exception |-> "KeyError"]
                 ELSE LET default_extruder == DictGet(emap, default_color, None)
                          acc == MergeLoop([exception     |-> None,
                                            all_vertices  |-> <<>>,
                                            all_triangles |-> <<>>,
                                            paint_colors  |-> <<>>],
                                           objs, emap, default_extruder)
                      IN  IF acc.exception # None THEN [exception |-> acc.exception]
                          ELSE [exception        |-> None,
                                merged           |-> [name      |-> "merged",
                                                      obj_id    |-> 1,
                                                      vertices  |-> acc.all_vertices,
                                                      triangles |-> acc.all_triangles,
                                                      color     |-> default_color,
                                                      transform |-> IF objs # <<>>
                                                                    THEN objs[1].transform
                                                                    ELSE ""],
                                paint_colors     |-> acc.paint_colors,
                                default_extruder |-> default_extruder,
                                lists            |-> [vertices  |-> AllVerticesList(objs),
                                                      triangles |-> AllTrianglesList(objs)]]

(***************************************************************************)
(* Attribute text.  An XML attribute is a string, or None when the element *)
(* does not carry it; int() and float() accept the numerals below and      *)
(* raise TypeError for None and ValueError for any other text.             *)
(***************************************************************************)
IntText == <<"0", "1", "2", "3", "4", "5", "6", "7", "8", "9">>

IsNumeral(s) == s = "-1" \/ \E n \in 0..9 : IntText[n + 1] = s

\* int(s) and float(s) for a numeral s
ParseInt(s) == IF s = "-1" THEN -1 ELSE CHOOSE n \in 0..9 : IntText[n + 1] = s

\* The exception int(s) or float(s) raises, None when it raises none.
ParseError(s) ==
    IF s = None THEN "TypeError" ELSE IF IsNumeral(s) THEN None ELSE "ValueError"

\* The first exception raised converting the attributes in order.
RECURSIVE FirstParseError(_)
FirstParseError(attrs) ==
    IF attrs = <<>> THEN None
    ELSE IF ParseError(Head(attrs)) # None THEN ParseError(Head(attrs))
    ELSE FirstParseError(Tail(attrs))

\* f"object_{obj_id}"
DefaultName(obj_id) == "object_" \o (IF obj_id = -1 THEN "-1" ELSE IntText[obj_id + 1])

\* s.lstrip("/")
RECURSIVE LStripSlash(_)
LStripSlash(s) ==
    IF Len(s) > 0 /\ SubSeq(s, 1, 1) = "/" THEN LStripSlash(SubSeq(s, 2, Len(s))) ELSE s

(***************************************************************************)
(* _parse_mesh                                                             *)
(*                                                                         *)
(* A mesh element is [vertices, triangles]: the x, y, z attributes of each *)
(* vertex and the v1, v2, v3, pid, p1 attributes of each triangle.         *)
(***************************************************************************)
\* lines 150-156
RECURSIVE ParseVertices(_, _)
ParseVertices(elems, vertices) ==
    IF elems = <<>> THEN [exception |-> None, vertices |-> vertices]
    ELSE LET v   == Head(elems)
             err == FirstParseError(<<v.x, v.y, v.z>>)
         IN  IF err # None THEN [exception |-> err, vertices |-> vertices]
             ELSE ParseVertices(Tail(elems),
                      Append(vertices, <<ParseInt(v.x), ParseInt(v.y), ParseInt(v.z)>>))

\* lines 158-172: the triangles and the votes of their own colors.
RECURSIVE ParseTriangles(_, _, _, _)
ParseTriangles(elems, cmap, triangles, color_votes) ==
    IF elems = <<>>
    THEN [exception |-> None, triangles |-> triangles, color_votes |-> color_votes]
    ELSE LET t   == Head(elems)
             err == FirstParseError(<<t.v1, t.v2, t.v3>>)
             tri == <<ParseInt(t.v1), ParseInt(t.v2), ParseInt(t.v3)>>
         IN  IF err # None
             THEN [exception |-> err, triangles |-> triangles, color_votes |-> color_votes]
             ELSE IF Truthy(t.pid) /\ Truthy(t.p1)
             THEN LET perr == FirstParseError(<<t.pid, t.p1>>)
                  IN  IF perr # None
                      THEN [exception |-> perr, triangles |-> Append(triangles, tri),
                            color_votes |-> color_votes]
                      ELSE LET c == DictGet(cmap, <<ParseInt(t.pid), ParseInt(t.p1)>>, None)
                           IN  ParseTriangles(Tail(elems), cmap, Append(triangles, tri),
                                   IF Truthy(c)
                                   THEN DictSet(color_votes, c, DictGet(color_votes, c, 0) + 1)
                                   ELSE color_votes)
             ELSE ParseTriangles(Tail(elems), cmap, Append(triangles, tri), color_votes)

\* lines 174-179: most common color wins; vs and ts are the outcomes of
\* the two loops.
MeshResult(vs, ts) ==
    IF vs.exception # None THEN [exception |-> vs.exception]
    ELSE IF ts.exception # None THEN [exception |-> ts.exception]
    ELSE [exception |-> None,
          vertices  |-> vs.vertices,
          triangles |-> ts.triangles,
          dominant  |-> IF ts.color_votes # <<>>
                        THEN DictArgMax(ts.color_votes)
                        ELSE None]

\* Returns (vertices, triangles, dominant), or the exception raised.
_parse_mesh(mesh_elem, cmap) ==
    MeshResult(ParseVertices(mesh_elem.vertices, <<>>),
               ParseTriangles(mesh_elem.triangles, cmap, <<>>, EmptyDict))

(***************************************************************************)
(* Object elements.                                                        *)
(*                                                                         *)
(* An object element is [id, name, pid, pindex, mesh, components]; mesh    *)
(* and components hold what find() returns as a list of no or one          *)
(* element, a components element being the list of its component          *)
(* children [objectid, p_path, path].                                      *)
(***************************************************************************)
\* a or b, for strings
Or(a, b) == IF Truthy(a) THEN a ELSE b

\* lines 83-88 and 225-229: the color of the object-level property.
ObjectLevelColor(obj_elem, cmap) ==
    IF Truthy(obj_elem.pid) /\ Truthy(obj_elem.pindex)
    THEN DictGet(cmap, <<ParseInt(obj_elem.pid), ParseInt(obj_elem.pindex)>>, None)
    ELSE None

ObjectLevelError(obj_elem) ==
    IF Truthy(obj_elem.pid) /\ Truthy(obj_elem.pindex)
    THEN FirstParseError(<<obj_elem.pid, obj_elem.pindex>>)
    ELSE None

\* Mutant: the vote of the triangles is preferred to the object's own property.
PickColorVoteFirst(obj_color, tri_color) == Or(Or(tri_color, obj_color), DefaultColor)

\* lines 93 and 236: obj_color or tri_color or "#808080"
PickColor(obj_color, tri_color) == Or(Or(obj_color, tri_color), DefaultColor)

\* lines 94-100 and 231-237: the MeshObject of an object element whose
\* mesh parsed to mesh and whose own property gave obj_color.
NewMeshObject(obj_elem, obj_id, obj_color, mesh) ==
    IF mesh.exception # None THEN [exception |-> mesh.exception]
    ELSE [exception |-> None,
          object |-> [name      |-> IF obj_elem.name = None
                                    THEN DefaultName(obj_id)
                                    ELSE obj_elem.name,
                      obj_id    |-> obj_id,
                      vertices  |-> mesh.vertices,
                      triangles |-> mesh.triangles,
                      color     |-> PickColor(obj_color, mesh.dominant),
                      transform |-> ""]]

\* The MeshObject built from a mesh-bearing object element (lines 92-100
\* and 224-237), or the exception raised on the way.
BuildMeshObject(obj_elem, cmap) ==
    IF ObjectLevelError(obj_elem) # None THEN [exception |-> ObjectLevelError(obj_elem)]
    ELSE NewMeshObject(obj_elem, ParseInt(obj_elem.id), ObjectLevelColor(obj_elem, cmap),
                       _parse_mesh(obj_elem.mesh[1], cmap))

(***************************************************************************)
(* The archive: the list of its entries [name, part] in archive order.     *)
(* A part is [unit, groups, objects, items], the elements root.iter finds. *)
(***************************************************************************)
NameList(archive) == [i \in 1..Len(archive) |-> archive[i].name]

InArchive(archive, name) == \E i \in 1..Len(archive) : archive[i].name = name

\* ET.parse(zf.open(name)).getroot()
OpenPart(archive, name) == archive[CHOOSE i \in 1..Len(archive) : archive[i].name = name].part

(***************************************************************************)
(* _parse_sub_model                                                        *)
(***************************************************************************)
\* Mutant: the ambient map is laid over the sub-part's map.
OverlayAmbientWins(ambient, sub_colors) == DictMerge(sub_colors, ambient)

\* line 217: merged = {**color_map, **sub_colors}
Overlay(ambient, sub_colors) == DictMerge(ambient, sub_colors)

\* Mutant: the sub-part's colors are written into the ambient map.
AmbientUpdatedBySub(ambient, sub_colors) == DictMerge(ambient, sub_colors)

\* line 217: {**color_map, **sub_colors} is a new dict; the dict the caller
\* passed as color_map is what it was.
AmbientAfterOverlay(ambient, sub_colors) == ambient

\* line 231: return [MeshObject(...)]
ReturnBuilt(built) ==
    IF built.exception # None
    THEN [exception |-> built.exception, objects |-> <<>>]
    ELSE [exception |-> None, objects |-> <<built.object>>]

\* lines 219-238: the first object of the part with the id and a mesh.
RECURSIVE FindSubObject(_, _, _)
FindSubObject(obj_elems, ref_id, merged) ==
    IF obj_elems = <<>> THEN [exception |-> None, objects |-> <<>>]
    ELSE LET obj_elem == Head(obj_elems)
         IN  IF ParseError(obj_elem.id) # None
             THEN [exception |-> ParseError(obj_elem.id), objects |-> <<>>]
             ELSE IF ParseInt(obj_elem.id) = ref_id /\ obj_elem.mesh # <<>>
             THEN ReturnBuilt(BuildMeshObject(obj_elem, merged))
             ELSE FindSubObject(Tail(obj_elems), ref_id, merged)

\* Returns the list of new MeshObjects, or the exception raised.  A path
\* that is no entry of the archive returns the empty list.
_parse_sub_model(archive, sub_path, ref_id, cmap) ==
    IF ~InArchive(archive, LStripSlash(sub_path))
    THEN [exception |-> None, objects |-> <<>>]
    ELSE FindSubObject(OpenPart(archive, LStripSlash(sub_path)).objects, ref_id,
             Overlay(cmap,
                     _extract_color_map(OpenPart(archive, LStripSlash(sub_path)).groups)))

\* The caller's color_map after the call: a path that is no entry of the
\* archive returns before the overlay.
AmbientAfterSubModel(archive, sub_path, cmap) ==
    IF ~InArchive(archive, LStripSlash(sub_path)) THEN cmap
    ELSE AmbientAfterOverlay(cmap,
             _extract_color_map(OpenPart(archive, LStripSlash(sub_path)).groups))

(***************************************************************************)
(* _resolve_object                                                         *)
(*                                                                         *)
(* MeshObjects are shared mutable objects: the heap is the list of the     *)
(* MeshObjects created so far and a reference is an index into it.         *)
(* all_objects maps an id to [kind, ref, elem]: a reference to a           *)
(* MeshObject (kind "mesh") or an object element (kind "element").         *)
(* The result is [exception, heap, refs, color_map]: the list the call     *)
(* returns, the heap and the caller's color map after it, or the exception *)
(* it raised.  The color map is one dict, handed on from call to call.     *)
(***************************************************************************)
\* line 196: comp.get(p:path) or comp.get("path")
ComponentPath(comp) == IF Truthy(comp.p_path) THEN comp.p_path ELSE comp.path

RECURSIVE _resolve_object(_, _, _, _, _, _)
RECURSIVE ResolveComponents(_, _, _, _, _, _, _)

\* lines 198-199: results.extend(sub_objects); the new MeshObjects join
\* the heap.
ExtendWithSub(sub, rest, all_objs, archive, cmap, hp, results, depth) ==
    IF sub.exception # None
    THEN [exception |-> sub.exception, heap |-> hp, refs |-> results, color_map |-> cmap]
    ELSE ResolveComponents(rest, all_objs, archive, cmap,
             hp \o sub.objects,
             results \o [k \in 1..Len(sub.objects) |-> Len(hp) + k],
             depth)

\* lines 201-203: results.extend(_resolve_object(...))
ExtendWithLocal(rec, rest, all_objs, archive, cmap, results, depth) ==
    IF rec.exception # None
    THEN [exception |-> rec.exception, heap |-> rec.heap, refs |-> results,
          color_map |-> rec.color_map]
    ELSE ResolveComponents(rest, all_objs, archive, rec.color_map, rec.heap,
                           results \o rec.refs, depth)

\* lines 194-203: the loop over the component children.
ResolveComponents(comps, all_objs, archive, cmap, hp, results, depth) ==
    IF comps = <<>>
    THEN [exception |-> None, heap |-> hp, refs |-> results, color_map |-> cmap]
    ELSE IF ParseError(Head(comps).objectid) # None
    THEN [exception |-> ParseError(Head(comps).objectid), heap |-> hp, refs |-> results,
          color_map |-> cmap]
    ELSE IF Truthy(ComponentPath(Head(comps)))
    THEN ExtendWithSub(
             _parse_sub_model(archive, ComponentPath(Head(comps)),
                              ParseInt(Head(comps).objectid), cmap),
             Tail(comps), all_objs, archive,
             AmbientAfterSubModel(archive, ComponentPath(Head(comps)), cmap),
             hp, results, depth)
    ELSE ExtendWithLocal(
             _resolve_object(ParseInt(Head(comps).objectid), all_objs, archive, cmap, hp,
                             depth + 1),
             Tail(comps), all_objs, archive, cmap, results, depth)

\* depth counts the nested calls: the interpreter ends a recursion deeper
\* than its limit with RecursionError.
_resolve_object(obj_id, all_objs, archive, cmap, hp, depth) ==
    IF depth > MaxDepth
    THEN [exception |-> "RecursionError", heap |-> hp, refs |-> <<>>, color_map |-> cmap]
    ELSE IF ~DictHas(all_objs, obj_id)
    THEN [exception |-> None, heap |-> hp, refs |-> <<>>, color_map |-> cmap]
    ELSE IF DictGet(all_objs, obj_id, None).kind = "mesh"
    THEN [exception |-> None, heap |-> hp, refs |-> <<DictGet(all_objs, obj_id, None).ref>>,
          color_map |-> cmap]
    ELSE IF DictGet(all_objs, obj_id, None).elem.components = <<>>
    THEN [exception |-> None, heap |-> hp, refs |-> <<>>, color_map |-> cmap]
    ELSE ResolveComponents(DictGet(all_objs, obj_id, None).elem.components[1],
                           all_objs, archive, cmap, hp, <<>>, depth)

(***************************************************************************)
(* parse_input_3mf                                                         *)
(***************************************************************************)
\* s.endswith(".model")
EndsWithModel(s) == Len(s) >= 6 /\ SubSeq(s, Len(s) - 5, Len(s)) = ".model"

\* Mutant: the first entry with the extension, wherever the well-known path is.
FindFirstModelEntry(archive) ==
    LET names == NameList(archive)
    IN  IF \E i \in 1..Len(names) : EndsWithModel(names[i])
        THEN names[CHOOSE i \in 1..Len(names) :
                       /\ EndsWithModel(names[i])
                       /\ \A j \in 1..(i - 1) : ~EndsWithModel(names[j])]
        ELSE None

\* The path of the main model, None when the code raises ValueError.
_find_model_path(archive) ==
    LET names == NameList(archive)
    IN  IF \E i \in 1..Len(names) : names[i] = "3D/3dmodel.model"
        THEN "3D/3dmodel.model"
        ELSE IF \E i \in 1..Len(names) : EndsWithModel(names[i])
        THEN names[CHOOSE i \in 1..Len(names) :
                       /\ EndsWithModel(names[i])
                       /\ \A j \in 1..(i - 1) : ~EndsWithModel(names[j])]
        ELSE None

NoElement == [id |-> None, name |-> None, pid |-> None, pindex |-> None,
              mesh |-> <<>>, components |-> <<>>]

\* lines 94-100: all_objects[obj_id] = MeshObject(...)
AddMeshObject(acc, obj_id, built) ==
    IF built.exception # None
    THEN [acc EXCEPT !.exception = built.exception]
    ELSE [exception   |-> None,
          heap        |-> Append(acc.heap, built.object),
          all_objects |-> DictSet(acc.all_objects, obj_id,
                                  [kind |-> "mesh", ref |-> Len(acc.heap) + 1,
                                   elem |-> NoElement])]

\* line 103: all_objects[obj_id] = obj_elem
AddElement(acc, obj_id, obj_elem) ==
    [acc EXCEPT !.all_objects =
         DictSet(acc.all_objects, obj_id,
                 [kind |-> "element", ref |-> 0, elem |-> obj_elem])]

\* lines 79-103, one object element: acc is [exception, all_objects, heap].
CollectObject(acc, obj_elem, cmap) ==
    IF ParseError(obj_elem.id) # None
    THEN [acc EXCEPT !.exception = ParseError(obj_elem.id)]
    ELSE IF ObjectLevelError(obj_elem) # None
    THEN [acc EXCEPT !.exception = ObjectLevelError(obj_elem)]
    ELSE IF obj_elem.mesh # <<>>
    THEN AddMeshObject(acc, ParseInt(obj_elem.id), BuildMeshObject(obj_elem, cmap))
    ELSE AddElement(acc, ParseInt(obj_elem.id), obj_elem)

\* lines 78-103: the resource table; an exception ends the loop.
RECURSIVE CollectObjects(_, _, _)
CollectObjects(obj_elems, cmap, acc) ==
    IF obj_elems = <<>> \/ acc.exception # None THEN acc
    ELSE CollectObjects(Tail(obj_elems), cmap, CollectObject(acc, Head(obj_elems), cmap))

(***************************************************************************)
(* The emitted parts.  A part is the record of what its XML text states;   *)
(* the fixed text of the templates is left out.                            *)
(***************************************************************************)
\* f"{i}" for an int i >= 0
RECURSIVE DecimalText(_)
DecimalText(i) ==
    IF i < 10 THEN IntText[i + 1]
    ELSE DecimalText(i \div 10) \o IntText[(i % 10) + 1]

IdentityTransform == "1 0 0 0 1 0 0 0 1 0 0 0"

\* f"/3D/Objects/object_{i}.model"
ObjectTarget(i) == "/3D/Objects/object_" \o DecimalText(i) \o ".model"

\* f"3D/Objects/object_{i}.model"
ObjectEntryName(i) == "3D/Objects/object_" \o DecimalText(i) \o ".model"

\* The Default elements of [Content_Types].xml.
_build_content_types == [extensions |-> <<"rels", "model", "png">>]

\* The Relationship elements of _rels/.rels.
_build_root_rels(has_thumbnails) ==
    <<[Target |-> "/3D/3dmodel.model", Id |-> "rel-1"]>>
    \o (IF has_thumbnails
        THEN <<[Target |-> "/Metadata/plate_1.png", Id |-> "rel-2"]>>
        ELSE <<>>)

\* Mutant: range(1, num_objects) in place of range(1, num_objects + 1).
ModelRelsOneShort(num_objects) ==
    [i \in 1..(num_objects - 1) |->
        [Target |-> ObjectTarget(i), Id |-> "rel-" \o DecimalText(i)]]

\* The Relationship elements of 3D/_rels/3dmodel.model.rels.
_build_model_rels(num_objects) ==
    [i \in 1..num_objects |->
        [Target |-> ObjectTarget(i), Id |-> "rel-" \o DecimalText(i)]]

\* transform if transform else "1 0 0 0 1 0 0 0 1 0 0 0"
TransformOrIdentity(transform) ==
    IF Truthy(transform) THEN transform ELSE IdentityTransform

\* The container objects and the build items of the main model.
_build_main_model(objs, unit) ==
    [unit    |-> unit,
     objects |-> [i \in 1..Len(objs) |->
                     [id |-> i, path |-> ObjectTarget(i), objectid |-> 1,
                      transform |-> IdentityTransform]],
     items   |-> [i \in 1..Len(objs) |->
                     [objectid |-> i,
                      transform |-> TransformOrIdentity(objs[i].transform)]]]

_build_main_model_painted(unit, transform) ==
    [unit    |-> unit,
     objects |-> <<[id |-> 1, path |-> "/3D/Objects/object_1.model", objectid |-> 1,
                    transform |-> IdentityTransform]>>,
     items   |-> <<[objectid |-> 1, transform |-> TransformOrIdentity(transform)]>>]

\* The paint_color attribute of triangle i, None when it is omitted; the
\* paint_colors of multi-object mode, None in the code, are the empty list
\* here: both are false.
PaintAttr(paint_colors, i) ==
    IF paint_colors # <<>> /\ paint_colors[i] # ""
    THEN paint_colors[i]
    ELSE None

\* The mesh of 3D/Objects/object_N.model.
_build_object_model(obj, unit, paint_colors) ==
    [unit      |-> unit,
     id        |-> 1,
     vertices  |-> obj.vertices,
     triangles |-> [i \in 1..Len(obj.triangles) |->
                       [v1 |-> obj.triangles[i][1], v2 |-> obj.triangles[i][2],
                        v3 |-> obj.triangles[i][3],
                        paint_color |-> PaintAttr(paint_colors, i)]]]

\* extruder_map[obj.color] for every object, None when one raises KeyError.
SettingsError(objs, emap) ==
    IF \E i \in 1..Len(objs) : ~DictHas(emap, objs[i].color) THEN "KeyError" ELSE None

\* The object, model_instance and assemble_item elements of the settings.
_build_model_settings(objs, emap) ==
    [objects   |-> [i \in 1..Len(objs) |->
                       [id |-> i, name |-> objs[i].name,
                        extruder |-> DictGet(emap, objs[i].color, None),
                        face_count |-> Len(objs[i].triangles), part_id |-> i]],
     instances |-> [i \in 1..Len(objs) |-> [object_id |-> i, instance_id |-> 0]],
     assemble  |-> [i \in 1..Len(objs) |-> [object_id |-> i, instance_id |-> 0]]]

_build_model_settings_painted(merged_obj, default_extruder) ==
    [objects   |-> <<[id |-> 1, name |-> merged_obj.name,
                      extruder |-> default_extruder,
                      face_count |-> Len(merged_obj.triangles), part_id |-> 1]>>,
     instances |-> <<[object_id |-> 1, instance_id |-> 0]>>,
     assemble  |-> <<[object_id |-> 1, instance_id |-> 0]>>]

(***************************************************************************)
(* write_bambu_3mf.  The output archive is the sequence of the entries     *)
(* written to it, once it has been opened.                                 *)
(***************************************************************************)
Entry(name, content) == [name |-> name, content |-> content]

\* The output before zipfile.ZipFile(output_path, "w") has run, and after.
Unopened == [opened |-> FALSE, entries |-> <<>>]
Opened(entries) == [opened |-> TRUE, entries |-> entries]

\* lines 658-662 and 689-693: the image entries.
ThumbnailEntries(thumbs) ==
    IF thumbs = EmptyDict THEN <<>>
    ELSE (IF DictHas(thumbs, "plate_1.png")
          THEN <<Entry("Metadata/plate_1.png", DictGet(thumbs, "plate_1.png", None))>>
          ELSE <<>>)
         \o [i \in 1..Len(thumbs) |->
                Entry("Auxiliaries/.thumbnails/" \o thumbs[i][1], thumbs[i][2])]

\* lines 644-662: the entries of painted mode, given the merger's result.
PaintedEntries(m, unit, thumbs) ==
    << Entry("[Content_Types].xml", _build_content_types),
       Entry("_rels/.rels", _build_root_rels(thumbs # EmptyDict)),
       Entry("3D/3dmodel.model", _build_main_model_painted(unit, m.merged.transform)),
       Entry("3D/_rels/3dmodel.model.rels", _build_model_rels(1)),
       Entry("3D/Objects/object_1.model",
             _build_object_model(m.merged, unit, m.paint_colors)),
       Entry("Metadata/model_settings.config",
             _build_model_settings_painted(m.merged, m.default_extruder)) >>
    \o ThumbnailEntries(thumbs)

\* lines 640-662: painted mode; the merger runs before the archive is opened.
WritePainted(m, unit, thumbs) ==
    IF m.exception # None
    THEN [exception |-> m.exception, merge_result |-> m, output |-> Unopened]
    ELSE [exception |-> None, merge_result |-> m,
          output |-> Opened(PaintedEntries(m, unit, thumbs))]

\* lines 672-693: multi-object mode.  The settings are built after the
\* model parts have been written, so a KeyError leaves them in the archive.
MultiObjectEntries(objs, unit, emap, thumbs) ==
    << Entry("[Content_Types].xml", _build_content_types),
       Entry("_rels/.rels", _build_root_rels(thumbs # EmptyDict)),
       Entry("3D/3dmodel.model", _build_main_model(objs, unit)),
       Entry("3D/_rels/3dmodel.model.rels", _build_model_rels(Len(objs))) >>
    \o [i \in 1..Len(objs) |->
           Entry(ObjectEntryName(i), _build_object_model(objs[i], unit, <<>>))]
    \o (IF SettingsError(objs, emap) # None THEN <<>>
        ELSE <<Entry("Metadata/model_settings.config",
                     _build_model_settings(objs, emap))>>
             \o ThumbnailEntries(thumbs))

\* write_bambu_3mf(output_path, parsed_model, extruder_map, thumbnails, painted)
write_bambu_3mf(objs, unit, emap, thumbs, is_painted) ==
    IF is_painted
    THEN WritePainted(merge_objects_painted(objs, emap), unit, thumbs)
    ELSE [exception |-> SettingsError(objs, emap), merge_result |-> NotRun,
          output |-> Opened(MultiObjectEntries(objs, unit, emap, thumbs))]

(***************************************************************************)
(* Inputs of the three stand-alone runs.                                   *)
(***************************************************************************)
\* displaycolor attributes: absent, "#RRGGBB", "#RRGGBBAA".
BasesPool ==
    { <<>>,
      <<None>>,
      <<"#11223344">>,
      <<"#FF0000", None>>,
      <<"#0000FFFF", "#00FF00">> }

GroupIds == {1, 5}

GroupPool == [id : GroupIds, bases : BasesPool]

\* Meshes with two or three vertices and up to two triangles; the last one
\* has a triangle index that is no index of its vertex list.
MeshPool ==
    { [name |-> "empty", obj_id |-> 1, transform |-> "",
       vertices |-> <<<<0, 0, 0>>, <<1, 0, 0>>, <<0, 1, 0>>>>,
       triangles |-> <<>>],
      [name |-> "tri", obj_id |-> 2, transform |-> "1 0 0 0 1 0 0 0 1 5 0 0",
       vertices |-> <<<<0, 0, 1>>, <<1, 0, 1>>, <<0, 1, 1>>>>,
       triangles |-> <<<<0, 1, 2>>>>],
      [name |-> "quad", obj_id |-> 3, transform |-> "",
       vertices |-> <<<<0, 0, 2>>, <<1, 0, 2>>, <<0, 1, 2>>>>,
       triangles |-> <<<<0, 1, 2>>, <<2, 1, 0>>>>],
      [name |-> "fold", obj_id |-> 4, transform |-> "1 0 0 0 1 0 0 0 1 0 7 0",
       vertices |-> <<<<0, 0, 3>>, <<1, 0, 3>>>>,
       triangles |-> <<<<1, 0, 1>>>>],
      [name |-> "pair", obj_id |-> 5, transform |-> "",
       vertices |-> <<<<0, 0, 4>>, <<1, 0, 4>>>>,
       triangles |-> <<<<0, 1, 1>>, <<1, 0, 0>>>>],
      [name |-> "broken", obj_id |-> 6, transform |-> "",
       vertices |-> <<<<0, 0, 5>>, <<1, 0, 5>>>>,
       triangles |-> <<<<0, 1, 2>>>>] }

ColorPool == {"#FF0000", "#0000FF", "#808080"}

ObjectPool ==
    { [name |-> m.name, obj_id |-> m.obj_id, vertices |-> m.vertices,
       triangles |-> m.triangles, color |-> c, transform |-> m.transform] :
      m \in MeshPool, c \in ColorPool }

\* The objects handed to the writer run: with and without a transform, with
\* and without triangles, in two colors.
WriteObjectPool ==
    { o \in ObjectPool :
        \/ o.name = "tri" /\ o.color \in {"#FF0000", "#0000FF"}
        \/ o.name = "quad" /\ o.color = "#FF0000"
        \/ o.name = "empty" /\ o.color = "#808080" }

\* What main hands to the writer: no thumbnail (--no-thumbnails, no F3D,
\* or F3D failing at once), or the three images generate_thumbnails renders.
GeneratedThumbnails ==
    { <<>>,
      << <<"plate_1.png", "png 512">>, <<"plate_1_tall.png", "png 256">>,
         <<"plate_1_small.png", "png 128">> >> }

\* The thumbnail dicts a caller of write_bambu_3mf may pass: also the ones
\* generate_thumbnails returns when F3D fails after the first or the second
\* image, and one without plate_1.png.
ThumbnailPool ==
    GeneratedThumbnails
    \cup { << <<"plate_1.png", "png 512">> >>,
           << <<"plate_1.png", "png 512">>, <<"plate_1_tall.png", "png 256">> >>,
           << <<"plate_1_small.png", "png 128">> >> }

(***************************************************************************)
(* Input packages of the conversion run: a root model at the well-known    *)
(* path and one sub-part.  The root part holds the mesh objects 1 and 3,   *)
(* the container 2 and the container 4 of container 2; the sub-part holds  *)
(* its own mesh object 3 and the container 5 of it.                        *)
(***************************************************************************)
RootPath == "3D/3dmodel.model"
SubPath == "3D/Objects/sub.model"

Vtx(x, y, z) == [x |-> x, y |-> y, z |-> z]
Tri(v1, v2, v3, pid, p1) == [v1 |-> v1, v2 |-> v2, v3 |-> v3, pid |-> pid, p1 |-> p1]
Comp(objectid, p_path) == [objectid |-> objectid, p_path |-> p_path, path |-> None]

MeshElement(obj_id, name, pid, pindex, mesh) ==
    [id |-> obj_id, name |-> name, pid |-> pid, pindex |-> pindex,
     mesh |-> <<mesh>>, components |-> <<>>]

Container(obj_id, name, comps) ==
    [id |-> obj_id, name |-> name, pid |-> None, pindex |-> None,
     mesh |-> <<>>, components |-> <<comps>>]

\* Object 1 of the root part: one triangle without a color of its own.
RootMesh1 ==
    [vertices  |-> <<Vtx("0", "0", "0"), Vtx("1", "0", "0"), Vtx("0", "1", "0")>>,
     triangles |-> <<Tri("0", "1", "2", None, None)>>]

\* Object 3 of the root part: one triangle that votes for the key (1, 1).
RootMesh3 ==
    [vertices  |-> <<Vtx("0", "0", "3"), Vtx("1", "0", "3"), Vtx("0", "1", "3")>>,
     triangles |-> <<Tri("2", "1", "0", "1", "1")>>]

\* Object 3 of the sub-part: two triangles, the first voting for (1, 1).
SubMesh3 ==
    [vertices  |-> <<Vtx("0", "0", "5"), Vtx("1", "0", "5"), Vtx("0", "1", "5"),
                     Vtx("1", "1", "5")>>,
     triangles |-> <<Tri("0", "1", "2", "1", "1"), Tri("1", "3", "2", None, None)>>]

LocalMesh1 == Comp("1", None)
LocalMesh3 == Comp("3", None)
Dangling == Comp("9", None)
SubMesh == Comp("3", "/3D/Objects/sub.model")
SubContainer == Comp("5", "/3D/Objects/sub.model")
MissingPart == Comp("3", "/3D/Objects/missing.model")
Itself == Comp("2", None)

\* The component children of container 2.
ComponentLists ==
    { <<>>,
      <<LocalMesh1>>,
      <<LocalMesh1, Dangling>>,
      <<Dangling, LocalMesh3>>,
      <<SubMesh>>,
      <<SubMesh, LocalMesh3>>,
      <<LocalMesh1, SubMesh, LocalMesh3>>,
      <<MissingPart, LocalMesh1>>,
      <<SubContainer>>,
      <<Itself>> }

\* pid and pindex of an object element.
RootProps == { <<None, None>>, <<"1", "0">>, <<"1", "5">> }
SubProps == { <<None, None>>, <<"1", "0">> }

RootGroupLists == { <<>>, <<[id |-> 1, bases |-> <<"#FF0000", "#00FF00FF">>]>> }
SubGroupLists == { <<>>, <<[id |-> 1, bases |-> <<"#0000FF">>]>> }

Item(objectid, transform) == [objectid |-> objectid, transform |-> transform]

ItemPool ==
    { Item("1", ""),
      Item("1", "1 0 0 0 1 0 0 0 1 5 0 0"),
      Item("2", "1 0 0 0 1 0 0 0 1 0 7 0"),
      Item("2", ""),
      Item("4", "1 0 0 0 1 0 0 0 1 5 0 0"),
      Item("9", "") }

RootPart(groups, props, comps, items) ==
    [unit    |-> "millimeter",
     groups  |-> groups,
     objects |-> << MeshElement("1", None, props[1], props[2], RootMesh1),
                    Container("2", "assembly", comps),
                    MeshElement("3", "local3", None, None, RootMesh3),
                    Container("4", "group", <<Comp("2", None)>>) >>,
     items   |-> items]

SubPart(groups, props) ==
    [unit    |-> "millimeter",
     groups  |-> groups,
     objects |-> << Container("5", "subgroup", <<Comp("3", None)>>),
                    MeshElement("3", "sub3", props[1], props[2], SubMesh3) >>,
     items   |-> <<>>]

Package(root, sub) ==
    << [name |-> RootPath, part |-> root], [name |-> SubPath, part |-> sub] >>

Packages ==
    { Package(RootPart(rg, rp, comps, items), SubPart(sg, sp)) :
        rg \in RootGroupLists, rp \in RootProps, comps \in ComponentLists,
        items \in SeqsUpTo(ItemPool, MaxItems),
        sg \in SubGroupLists, sp \in SubProps }

\* A part that is no model.
OtherPart == [unit |-> "", groups |-> <<>>, objects |-> <<>>, items |-> <<>>]

\* Archives whose main model is not the first entry, or not at the
\* well-known path.
RelocatedPackages ==
    LET root == RootPart(<<>>, <<None, None>>, <<LocalMesh1>>, <<Item("2", "")>>)
        sub  == SubPart(<<>>, <<None, None>>)
    IN  { << [name |-> SubPath, part |-> sub], [name |-> RootPath, part |-> root] >>,
          << [name |-> "[Content_Types].xml", part |-> OtherPart],
             [name |-> "3D/other.model", part |-> root],
             [name |-> SubPath, part |-> sub] >>,
          << [name |-> SubPath, part |-> sub],
             [name |-> "3D/other.model", part |-> root] >> }

\* Meshes with a malformed field: a coordinate that is no number, a vertex
\* without its z, a triangle index that is no number, a triangle without v3.
BrokenMeshes ==
    { [RootMesh1 EXCEPT !.vertices[2] = Vtx("1", "abc", "0")],
      [RootMesh1 EXCEPT !.vertices[3] = Vtx("0", "1", None)],
      [RootMesh1 EXCEPT !.triangles[1] = Tri("0", "x", "2", None, None)],
      [RootMesh1 EXCEPT !.triangles[1] = Tri("0", "1", None, None, None)] }

\* One part with its k-th object element replaced.
WithObject(part, k, obj_elem) == [part EXCEPT !.objects[k] = obj_elem]

\* Packages with a malformed mesh in the root part or in the sub-part.
BrokenPackages ==
    { Package(WithObject(RootPart(<<>>, <<None, None>>, <<LocalMesh1>>,
                                  <<Item("1", "")>>),
                         1, MeshElement("1", None, None, None, m)),
              SubPart(<<>>, <<None, None>>)) : m \in BrokenMeshes }
    \cup
    { Package(RootPart(<<>>, <<None, None>>, <<LocalMesh1, SubMesh>>, <<Item("2", "")>>),
              WithObject(SubPart(<<>>, <<None, None>>),
                         2, MeshElement("3", "sub3", None, None, m))) :
        m \in BrokenMeshes }

\* A mesh whose triangles vote once for the key (1, 0) and twice for (1, 1).
VotingMesh ==
    [vertices  |-> <<Vtx("0", "0", "7"), Vtx("1", "0", "7"), Vtx("0", "1", "7")>>,
     triangles |-> <<Tri("0", "1", "2", "1", "0"), Tri("2", "1", "0", "1", "1"),
                     Tri("1", "2", "0", "1", "1")>>]

\* pid and pindex of an object element: absent, found in the color map of
\* RootGroupLists, not found in it, pid without pindex.
ColorProps == { <<None, None>>, <<"1", "0">>, <<"1", "5">>, <<"1", None>> }

\* Packages with an object that has, or has not, an object-level property
\* and triangles that vote, or do not, in the root part and in the sub-part.
ColorPackages ==
    { Package(WithObject(RootPart(rg, <<None, None>>, <<SubMesh>>,
                                  <<Item("1", ""), Item("2", "")>>),
                         1, MeshElement("1", None, rp[1], rp[2], m)),
              WithObject(SubPart(<<>>, <<None, None>>),
                         2, MeshElement("3", "sub3", rp[1], rp[2], m))) :
        rg \in RootGroupLists, rp \in ColorProps, m \in {RootMesh1, VotingMesh} }

\* A second sub-part without color groups: its object 3 has the object-level
\* key (1, 0) and a mesh whose triangles have no color of their own.
PlainPath == "3D/Objects/plain.model"

PlainMesh == Comp("3", "/3D/Objects/plain.model")

PlainPart ==
    [unit    |-> "millimeter",
     groups  |-> <<>>,
     objects |-> << MeshElement("3", "plain3", "1", "0", RootMesh1) >>,
     items   |-> <<>>]

\* The root part with one more container, object 6, whose only child is
\* object 3 of the plain part.
WithLaterContainer(part) ==
    [part EXCEPT !.objects = Append(@, Container("6", "later", <<PlainMesh>>))]

\* Packages where a component into the sub-part, which has a color of its
\* own for the key (1, 0), comes before a component into the plain part:
\* as the next child of the same container, or under a later build item.
SiblingPackages ==
    { << [name |-> RootPath,
          part |-> WithLaterContainer(RootPart(rg, <<None, None>>, comps,
                                               <<Item("2", ""), Item("6", "")>>))],
         [name |-> SubPath,
          part |-> SubPart(<<[id |-> 1, bases |-> <<"#0000FF">>]>>, <<"1", "0">>)],
         [name |-> PlainPath, part |-> PlainPart] >> :
        rg \in RootGroupLists, comps \in {<<SubMesh>>, <<SubMesh, PlainMesh>>} }

\* Meshes of three vertices with a triangle index that is no index of the
\* vertex list: the vertex count, and a negative number.
InvalidIndexMeshes ==
    { [RootMesh1 EXCEPT !.triangles[1] = Tri("0", "1", "3", None, None)],
      [RootMesh1 EXCEPT !.triangles[1] = Tri("0", "-1", "2", None, None)] }

\* Packages with such a mesh in the root part or in the sub-part.
InvalidIndexPackages ==
    { Package(WithObject(RootPart(<<>>, <<None, None>>, <<LocalMesh1>>,
                                  <<Item("1", "")>>),
                         1, MeshElement("1", None, None, None, m)),
              SubPart(<<>>, <<None, None>>)) : m \in InvalidIndexMeshes }
    \cup
    { Package(RootPart(<<>>, <<None, None>>, <<SubMesh>>, <<Item("2", "")>>),
              WithObject(SubPart(<<>>, <<None, None>>),
                         2, MeshElement("3", "sub3", None, None, m))) :
        m \in InvalidIndexMeshes }

\* An archive without any model part.
NoModelPackage ==
    << [name |-> "[Content_Types].xml", part |-> OtherPart] >>

(***************************************************************************)
(* The runs.                                                               *)
(***************************************************************************)
\* The variables of the conversion run, in a run that does not convert.
NoConversion ==
    /\ zf = NotRun /\ all_objects = NotRun /\ heap = NotRun /\ build_items = NotRun
    /\ resolved = NotRun /\ exception = NotRun /\ reported = NotRun
    /\ model_path = NotRun

\* encode_paint_color(state)
Encode ==
    /\ pc = "encode"
    /\ encoded' = encode_paint_color(state)
    /\ pc' = "encoded"
    /\ UNCHANGED <<state, bm_groups, color_map, objects, extruder_map, merge_result>>
    /\ UNCHANGED parseVars
    /\ UNCHANGED writeVars

InitEncode ==
    /\ pc = "encode"
    /\ state \in 0..MaxState
    /\ encoded = NotRun
    /\ bm_groups = NotRun /\ color_map = NotRun
    /\ objects = NotRun /\ extruder_map = NotRun /\ merge_result = NotRun
    /\ NoConversion
    /\ painted = NotRun /\ thumbnails = NotRun /\ output = NotRun

SpecEncode == InitEncode /\ [][Encode]_vars

\* color_map = _extract_color_map(root)
ExtractColorMap ==
    /\ pc = "extract"
    /\ color_map' = _extract_color_map(bm_groups)
    /\ pc' = "extracted"
    /\ UNCHANGED <<state, encoded, bm_groups, objects, extruder_map, merge_result>>
    /\ UNCHANGED parseVars
    /\ UNCHANGED writeVars

InitColorMap ==
    /\ pc = "extract"
    /\ bm_groups \in SeqsUpTo(GroupPool, MaxGroups)
    /\ color_map = NotRun
    /\ state = NotRun /\ encoded = NotRun
    /\ objects = NotRun /\ extruder_map = NotRun /\ merge_result = NotRun
    /\ NoConversion
    /\ painted = NotRun /\ thumbnails = NotRun /\ output = NotRun

SpecColorMap == InitColorMap /\ [][ExtractColorMap]_vars

\* extruder_map = map_colors_to_extruders(parsed.objects)
MapColors ==
    /\ pc = "map"
    /\ extruder_map' = map_colors_to_extruders(objects)
    /\ pc' = "merge"
    /\ UNCHANGED <<state, encoded, bm_groups, color_map, objects, merge_result>>
    /\ UNCHANGED parseVars
    /\ UNCHANGED writeVars

\* merged, paint_colors, default_extruder = merge_objects_painted(objects, extruder_map)
Merge ==
    /\ pc = "merge"
    /\ \E m \in {merge_objects_painted(objects, extruder_map)} :
          /\ merge_result' = m
          /\ objects' = InputsAfterMerge(objects, m)
    /\ pc' = "merged"
    /\ UNCHANGED <<state, encoded, bm_groups, color_map, extruder_map>>
    /\ UNCHANGED parseVars
    /\ UNCHANGED writeVars

InitMerge ==
    /\ pc = "map"
    /\ objects \in SeqsUpTo(ObjectPool, MaxObjs)
    /\ extruder_map = NotRun /\ merge_result = NotRun
    /\ state = NotRun /\ encoded = NotRun
    /\ bm_groups = NotRun /\ color_map = NotRun
    /\ NoConversion
    /\ painted = NotRun /\ thumbnails = NotRun /\ output = NotRun

NextMerge == MapColors \/ Merge

SpecMerge == InitMerge /\ [][NextMerge]_vars

\* write_bambu_3mf(output, parsed, extruder_map, thumbnails, painted=painted)
Write ==
    /\ pc = "write alone"
    /\ \E w \in {write_bambu_3mf(objects, "millimeter", extruder_map, thumbnails,
                                  painted)} :
          /\ merge_result' = w.merge_result
          /\ output' = w.output
          /\ exception' = w.exception
          /\ pc' = IF w.exception # None THEN "crashed" ELSE "written"
    /\ UNCHANGED <<state, encoded, bm_groups, color_map, objects, extruder_map>>
    /\ UNCHANGED <<zf, all_objects, heap, build_items, resolved, reported, model_path>>
    /\ UNCHANGED <<painted, thumbnails>>

\* The writer is handed what main hands it: a list of objects that is not
\* empty, and the extruder map of that list.
InitWrite ==
    /\ pc = "write alone"
    /\ objects \in SeqsUpTo(WriteObjectPool, MaxObjs) \ {<<>>}
    /\ extruder_map = map_colors_to_extruders(objects)
    /\ thumbnails \in ThumbnailPool
    /\ painted \in BOOLEAN
    /\ merge_result = NotRun /\ output = Unopened /\ exception = None
    /\ state = NotRun /\ encoded = NotRun
    /\ bm_groups = NotRun /\ color_map = NotRun
    /\ zf = NotRun /\ all_objects = NotRun /\ heap = NotRun /\ build_items = NotRun
    /\ resolved = NotRun /\ reported = NotRun /\ model_path = NotRun

SpecWrite == InitWrite /\ [][Write]_vars

(***************************************************************************)
(* The conversion run: main.                                               *)
(***************************************************************************)
otherVars == <<state, encoded, bm_groups, extruder_map, merge_result>>

Root == OpenPart(zf, _find_model_path(zf))

\* An uncaught exception ends the run.
Crash(e) == pc' = "crashed" /\ exception' = e

\* lines 64-103: the main model is found and read, the color map and the
\* resource table are built.
OpenInput ==
    /\ pc = "open"
    /\ IF _find_model_path(zf) = None
       THEN /\ Crash("ValueError")
            /\ UNCHANGED <<color_map, all_objects, heap, model_path>>
       ELSE /\ model_path' = _find_model_path(zf)
            /\ color_map' = _extract_color_map(Root.groups)
            /\ \E acc \in {CollectObjects(Root.objects, color_map',
                               [exception |-> None, all_objects |-> EmptyDict,
                                heap |-> <<>>])} :
                  /\ all_objects' = acc.all_objects
                  /\ heap' = acc.heap
                  /\ IF acc.exception # None
                     THEN Crash(acc.exception)
                     ELSE pc' = "items" /\ UNCHANGED exception
    /\ UNCHANGED <<zf, objects, build_items, resolved, reported>>
    /\ UNCHANGED otherVars
    /\ UNCHANGED writeVars

\* Mutant: the build item's transform is not written to the resolved objects.
PlaceKeepTransform(hp, refs, transform) == hp

\* lines 111-112: mesh_obj.transform = transform, for every resolved object.
Place(hp, refs, transform) ==
    [r \in 1..Len(hp) |->
        IF \E k \in 1..Len(refs) : refs[k] = r
        THEN [hp[r] EXCEPT !.transform = transform]
        ELSE hp[r]]

\* lines 107-113: the next build item is resolved and its objects placed.
ResolveItem ==
    /\ pc = "items"
    /\ Len(resolved) < Len(Root.items)
    /\ \E item \in {Root.items[Len(resolved) + 1]} :
          IF ParseError(item.objectid) # None
          THEN /\ Crash(ParseError(item.objectid))
               /\ UNCHANGED <<heap, build_items, resolved, color_map>>
          ELSE \E rec \in {_resolve_object(ParseInt(item.objectid), all_objects, zf,
                                           color_map, heap, 0)} :
                  IF rec.exception # None
                  THEN /\ Crash(rec.exception)
                       /\ UNCHANGED <<heap, build_items, resolved, color_map>>
                  ELSE /\ heap' = Place(rec.heap, rec.refs, item.transform)
                       /\ build_items' = build_items \o rec.refs
                       /\ resolved' = Append(resolved, rec.refs)
                       /\ color_map' = rec.color_map
                       /\ UNCHANGED <<pc, exception>>
    /\ UNCHANGED <<zf, all_objects, objects, reported, model_path>>
    /\ UNCHANGED otherVars
    /\ UNCHANGED writeVars

\* lines 115-117: model.objects = build_items; return model.
ParseReturn ==
    /\ pc = "items"
    /\ Len(resolved) = Len(Root.items)
    /\ objects' = [k \in 1..Len(build_items) |-> heap[build_items[k]]]
    /\ pc' = "parsed"
    /\ UNCHANGED <<zf, color_map, all_objects, heap, build_items, resolved, exception,
                   reported, model_path>>
    /\ UNCHANGED otherVars
    /\ UNCHANGED writeVars

\* Mutant: main goes on whatever the parser returned.
CheckParsedNoExit ==
    /\ pc = "parsed"
    /\ pc' = "map colors"
    /\ UNCHANGED <<zf, color_map, all_objects, heap, build_items, resolved, exception,
                   objects, model_path, reported>>
    /\ UNCHANGED otherVars
    /\ UNCHANGED writeVars

\* main, lines 732-734: no object is an error, reported before the exit.
CheckParsed ==
    /\ pc = "parsed"
    /\ IF objects = <<>>
       THEN /\ reported' = Append(reported, "Error: No mesh objects found in input 3MF")
            /\ pc' = "exit 1"
       ELSE /\ pc' = "map colors"
            /\ UNCHANGED reported
    /\ UNCHANGED <<zf, color_map, all_objects, heap, build_items, resolved, exception,
                   objects, model_path>>
    /\ UNCHANGED otherVars
    /\ UNCHANGED writeVars

\* main, lines 741-763: the extruder map, the thumbnails, and the call of
\* write_bambu_3mf in the mode the command line selects (line 722).
WriteOutput ==
    /\ pc = "map colors"
    /\ extruder_map' = map_colors_to_extruders(objects)
    /\ thumbnails' \in GeneratedThumbnails
    /\ painted' \in BOOLEAN
    /\ \E w \in {write_bambu_3mf(objects, Root.unit, extruder_map', thumbnails',
                                  painted')} :
          /\ merge_result' = w.merge_result
          /\ output' = w.output
          /\ IF w.exception # None
             THEN Crash(w.exception)
             ELSE pc' = "written" /\ UNCHANGED exception
    /\ UNCHANGED <<state, encoded, bm_groups, color_map, objects>>
    /\ UNCHANGED <<zf, all_objects, heap, build_items, resolved, reported, model_path>>

Init ==
    /\ pc = "open"
    /\ zf \in Packages \cup RelocatedPackages \cup BrokenPackages \cup ColorPackages
                \cup SiblingPackages \cup InvalidIndexPackages \cup {NoModelPackage}
    /\ color_map = NotRun /\ all_objects = NotRun /\ heap = NotRun
    /\ build_items = <<>> /\ resolved = <<>> /\ objects = NotRun
    /\ exception = None /\ reported = <<>>
    /\ model_path = NotRun
    /\ painted = NotRun /\ thumbnails = NotRun /\ output = Unopened
    /\ state = NotRun /\ encoded = NotRun /\ bm_groups = NotRun
    /\ extruder_map = NotRun /\ merge_result = NotRun

Next ==
    \/ OpenInput \/ ResolveItem \/ ParseReturn \/ CheckParsed \/ WriteOutput

Spec == Init /\ [][Next]_vars

(***************************************************************************)
(* Claims about the paint-state encoder (SpecEncode).                      *)
(***************************************************************************)
\* C1: decoding the string encode_paint_color returns, by the consumer's
\* rule, recovers the state exactly, for every state 0..MaxState.
C1_EncodeRoundTrips ==
    pc = "encoded" => DecodePaintColor(encoded) = state

\* State 33 was encoded with two continuation nibbles and decoded back.
C1_Witness ==
    /\ pc = "encoded" /\ state = 33 /\ encoded = "0FFC"
    /\ DecodePaintColor(encoded) = 33

\* n characters "F"
RECURSIVE Fs(_)
Fs(n) == IF n = 0 THEN "" ELSE "F" \o Fs(n - 1)

\* The layout the claim states for a state.
PaintLayout(s) ==
    IF s = 0 THEN ""
    ELSE IF s = 1 THEN "4"
    ELSE IF s = 2 THEN "8"
    ELSE SubSeq("0123456789ABCDE", ((s - 3) % 15) + 1, ((s - 3) % 15) + 1)
             \o Fs((s - 3) \div 15) \o "C"

\* C2: the encoder's output is "", "4", "8" for the states 0, 1, 2 and, for
\* a state s >= 3, the digit of (s-3) mod 15, then (s-3) div 15 times "F",
\* then "C" as the last character; its first character is never "F".
C2_EncodeLayout ==
    pc = "encoded" =>
        /\ encoded = PaintLayout(state)
        /\ encoded # "" => SubSeq(encoded, 1, 1) # "F"

\* State 18 sits on the continuation boundary: ext = 15 gives "0FC".
C2_Witness ==
    pc = "encoded" /\ state = 18 /\ encoded = "0FC"

(***************************************************************************)
(* Claims about the extruder mapper and the merger (SpecMerge).            *)
(***************************************************************************)
Merged == merge_result.merged

MergeReturned == pc = "merged" /\ merge_result.exception = None

\* Every triangle index of the object is below its own vertex count.
IndicesValid(obj) ==
    \A t \in 1..Len(obj.triangles) :
        \A k \in 1..3 : obj.triangles[t][k] < Len(obj.vertices)

RECURSIVE SumVertices(_)
SumVertices(objs) ==
    IF objs = <<>> THEN 0 ELSE Len(Head(objs).vertices) + SumVertices(Tail(objs))

RECURSIVE SumTriangles(_)
SumTriangles(objs) ==
    IF objs = <<>> THEN 0 ELSE Len(Head(objs).triangles) + SumTriangles(Tail(objs))

\* C3: for a non-empty object sequence with valid indices the merged mesh
\* has the summed vertex and triangle counts, one paint state per merged
\* triangle, and every merged index below the merged vertex count.
C3_MergeCounts ==
    (pc = "merged" /\ objects # <<>> /\ \A i \in 1..Len(objects) : IndicesValid(objects[i])) =>
        /\ merge_result.exception = None
        /\ Len(Merged.vertices) = SumVertices(objects)
        /\ Len(Merged.triangles) = SumTriangles(objects)
        /\ Len(merge_result.paint_colors) = Len(Merged.triangles)
        /\ IndicesValid(Merged)

\* Three valid objects with five triangles between them were merged.
C3_Witness ==
    /\ MergeReturned
    /\ Len(objects) = 3
    /\ \A i \in 1..3 : IndicesValid(objects[i]) /\ objects[i].triangles # <<>>
    /\ Len(Merged.triangles) = 5
    /\ Len(Merged.vertices) = 7

ColorsOf(objs) == { objs[i].color : i \in 1..Len(objs) }

\* Triangles of the objects of color c.
RECURSIVE TrianglesOfColor(_, _)
TrianglesOfColor(objs, c) ==
    IF objs = <<>> THEN 0
    ELSE (IF Head(objs).color = c THEN Len(Head(objs).triangles) ELSE 0)
             + TrianglesOfColor(Tail(objs), c)

\* Position of the first object of color c.
FirstSeen(objs, c) ==
    CHOOSE i \in 1..Len(objs) :
        objs[i].color = c /\ \A j \in 1..(i - 1) : objs[j].color # c

\* c has the largest triangle total and is the first seen of the colors
\* that have it.
IsMajorityColor(objs, c) ==
    /\ c \in ColorsOf(objs)
    /\ \A d \in ColorsOf(objs) :
           /\ TrianglesOfColor(objs, d) <= TrianglesOfColor(objs, c)
           /\ TrianglesOfColor(objs, d) = TrianglesOfColor(objs, c)
                  => FirstSeen(objs, c) <= FirstSeen(objs, d)

\* C4: the default color is the color with the largest triangle total, the
\* first seen in the object sequence among tied colors, and the default
\* slot is that color's slot in the ExtruderMap.
C4_DefaultIsMajority ==
    (pc = "merged" /\ objects # <<>>) =>
        /\ merge_result.exception = None
        /\ IsMajorityColor(objects, Merged.color)
        /\ merge_result.default_extruder = DictGet(extruder_map, Merged.color, None)

\* Two colors tie for the largest total and the later-seen one is not
\* chosen.
C4_Witness ==
    /\ MergeReturned
    /\ \E c, d \in ColorsOf(objects) :
           /\ c # d
           /\ TrianglesOfColor(objects, c) = TrianglesOfColor(objects, d)
           /\ TrianglesOfColor(objects, c) > 0
           /\ FirstSeen(objects, c) < FirstSeen(objects, d)
           /\ Merged.color = c
           /\ merge_result.default_extruder = 1

\* Position, in the merged triangle list, of triangle t of object i.
MergedPosition(objs, i, t) == SumTriangles(SubSeq(objs, 1, i - 1)) + t

\* C5: a merged triangle carries a non-empty paint state exactly when its
\* object's color is not the default color, and then the paint state is
\* encode_paint_color of that color's slot.
C5_PaintOnlyNonDefault ==
    (pc = "merged" /\ objects # <<>>) =>
        /\ merge_result.exception = None
        /\ \A i \in 1..Len(objects) : \A t \in 1..Len(objects[i].triangles) :
               LET paint == merge_result.paint_colors[MergedPosition(objects, i, t)]
                   slot  == DictGet(extruder_map, objects[i].color, None)
               IN  /\ paint # "" <=> objects[i].color # Merged.color
                   /\ objects[i].color # Merged.color => paint = encode_paint_color(slot)
                   /\ objects[i].color = Merged.color => paint = ""

\* A merge with painted and unpainted triangles, one of them in slot 3.
C5_Witness ==
    /\ MergeReturned
    /\ Len(objects) = 3
    /\ merge_result.paint_colors = <<"", "", "8", "0C">>

\* Distinct colors among the first n objects.
ColorsUpTo(objs, n) == { objs[i].color : i \in 1..n }

\* C6: the k-th distinct color met gets slot k, a repeated color keeps the
\* slot of its first occurrence, the slots are exactly 1..K, no two colors
\* share a slot, and every object's color is a key.
C6_FirstSeenSlots ==
    pc \in {"merge", "merged"} =>
        LET keys == DictKeys(extruder_map)
            K    == Cardinality(ColorsOf(objects))
        IN  /\ { keys[i] : i \in 1..Len(keys) } = ColorsOf(objects)
            /\ Len(keys) = K
            /\ { DictGet(extruder_map, c, None) : c \in ColorsOf(objects) } = 1..K
            /\ \A i \in 1..Len(objects) :
                   DictGet(extruder_map, objects[i].color, None)
                       = Cardinality(ColorsUpTo(objects, FirstSeen(objects, objects[i].color)))

\* The colors [red, blue, red] were mapped to red: 1, blue: 2.
C6_Witness ==
    /\ pc = "merge"
    /\ Len(objects) = 3
    /\ objects[1].color = "#FF0000" /\ objects[2].color = "#0000FF"
    /\ objects[3].color = "#FF0000"
    /\ extruder_map = << <<"#FF0000", 1>>, <<"#0000FF", 2>> >>

(***************************************************************************)
(* Claims about the Color Map Builder (SpecColorMap).                      *)
(***************************************************************************)
\* The normalized color the claim states for a displaycolor attribute.
StatedColor(attr) ==
    CASE attr = None -> "#808080"
      [] attr = "#11223344" -> "#112233"
      [] attr = "#0000FFFF" -> "#0000FF"
      [] attr = "#00FF00FF" -> "#00FF00"
      [] OTHER -> attr

\* Entry i (0-based) of group g is the last one declared under its key.
LastUnderKey(groups, g, i) ==
    \A h \in (g + 1)..Len(groups) :
        ~(groups[h].id = groups[g].id /\ i < Len(groups[h].bases))

\* C7: every material entry is mapped under (group id, 0-based position)
\* to its normalized color: "#RRGGBBAA" cut to 7 characters, "#808080" when
\* no color is declared (where two groups declare the same id, the entry
\* of the later group is the one kept); the map has no other key, so a
\* part without material groups yields the empty map.
C7_ColorMapEntries ==
    pc = "extracted" =>
        /\ \A g \in 1..Len(bm_groups) : \A i \in 0..(Len(bm_groups[g].bases) - 1) :
               /\ DictHas(color_map, <<bm_groups[g].id, i>>)
               /\ LastUnderKey(bm_groups, g, i) =>
                      DictGet(color_map, <<bm_groups[g].id, i>>, None)
                          = StatedColor(bm_groups[g].bases[i + 1])
        /\ \A k \in 1..Len(color_map) :
               \E g \in 1..Len(bm_groups) :
                   /\ color_map[k][1][1] = bm_groups[g].id
                   /\ color_map[k][1][2] \in 0..(Len(bm_groups[g].bases) - 1)
        /\ bm_groups = <<>> => color_map = <<>>

\* A group with an alpha color and a group with an undeclared color.
C7_Witness ==
    /\ pc = "extracted"
    /\ bm_groups = << [id |-> 1, bases |-> <<"#11223344">>],
                     [id |-> 5, bases |-> <<"#FF0000", None>>] >>
    /\ color_map = << << <<1, 0>>, "#112233" >>,
                     << <<5, 0>>, "#FF0000" >>,
                     << <<5, 1>>, "#808080" >> >>

(***************************************************************************)
(* Claims about the Component Resolver (Spec).                             *)
(***************************************************************************)
\* The build items of the root model, none when no model part is found.
BuildItems == IF _find_model_path(zf) = None THEN <<>> ELSE Root.items

\* The component children of container 2 of the root part, which the
\* build items of objects 2 and 4 resolve; none when the second object of
\* the main model is no container.
RootComponents ==
    IF Root.objects[2].components = <<>> THEN <<>> ELSE Root.objects[2].components[1]

\* Build item i was resolved and its object is the container.
ResolvedContainer(i) ==
    /\ pc \in {"items", "parsed", "map colors", "exit 1"}
    /\ i \in 1..Len(resolved)
    /\ Root.items[i].objectid \in {"2", "4"}

\* The component names a part of the archive.
NamesPart(comp) ==
    /\ comp.p_path # None
    /\ \E n \in 1..Len(zf) : "/" \o zf[n].name = comp.p_path

PartNamed(comp) == zf[CHOOSE n \in 1..Len(zf) : "/" \o zf[n].name = comp.p_path].part

\* The mesh-bearing object element with the id in the part.
DefinesMesh(part, id) ==
    \E n \in 1..Len(part.objects) : part.objects[n].id = id /\ part.objects[n].mesh # <<>>

MeshElementOf(part, id) ==
    part.objects[CHOOSE n \in 1..Len(part.objects) :
                     part.objects[n].id = id /\ part.objects[n].mesh # <<>>]

\* The color the material groups declare under the key, "" when they
\* declare none.
DeclaredColor(groups, gid, index) ==
    IF \E g \in 1..Len(groups) : groups[g].id = gid /\ index < Len(groups[g].bases)
    THEN StatedColor(
             groups[CHOOSE g \in 1..Len(groups) :
                        /\ groups[g].id = gid /\ index < Len(groups[g].bases)
                        /\ LastUnderKey(groups, g, index)].bases[index + 1])
    ELSE ""

\* The sub-part's color under the key when it declares one, else the
\* ambient color.
OverlaidColor(gid, index, sub_groups) ==
    IF DeclaredColor(sub_groups, gid, index) # ""
    THEN DeclaredColor(sub_groups, gid, index)
    ELSE DeclaredColor(Root.groups, gid, index)

\* Every component of the list resolves to one mesh object: a mesh of the
\* root part, or a mesh of a part of the archive.
OneObjectEach(comps) ==
    \A j \in 1..Len(comps) :
        IF comps[j].p_path = None
        THEN DefinesMesh(Root, comps[j].objectid)
        ELSE NamesPart(comps[j]) /\ DefinesMesh(PartNamed(comps[j]), comps[j].objectid)

\* The object is the one the element of the sub-part describes, colored
\* through the overlaid map.
IsSubPartObject(obj, elem, sub_groups) ==
    /\ obj.name = elem.name
    /\ obj.obj_id = ParseInt(elem.id)
    /\ Len(obj.vertices) = Len(elem.mesh[1].vertices)
    /\ Len(obj.triangles) = Len(elem.mesh[1].triangles)
    /\ \A t \in 1..Len(obj.triangles) :
           obj.triangles[t] = <<ParseInt(elem.mesh[1].triangles[t].v1),
                                ParseInt(elem.mesh[1].triangles[t].v2),
                                ParseInt(elem.mesh[1].triangles[t].v3)>>
    /\ (elem.pid # None /\ elem.pindex # None
           /\ OverlaidColor(ParseInt(elem.pid), ParseInt(elem.pindex), sub_groups) # "")
          => obj.color = OverlaidColor(ParseInt(elem.pid), ParseInt(elem.pindex), sub_groups)

\* C8: a component that names a part and an object id resolves to the mesh
\* object with that id defined in that part, not to the referencing part's
\* object of the same id, and its color is looked up in the ambient
\* ColorMap overlaid with the sub-part's own, the sub-part's entry winning;
\* a single such component yields exactly one MeshObject.
C8_SubPartResolution ==
    \A i \in 1..Len(BuildItems) :
        (ResolvedContainer(i) /\ OneObjectEach(RootComponents)) =>
            /\ Len(resolved[i]) = Len(RootComponents)
            /\ \A j \in 1..Len(RootComponents) :
                   RootComponents[j].p_path # None =>
                       IsSubPartObject(heap[resolved[i][j]],
                                       MeshElementOf(PartNamed(RootComponents[j]),
                                                     RootComponents[j].objectid),
                                       PartNamed(RootComponents[j]).groups)

\* The container's only component names object 3 of the sub-part: one
\* MeshObject with the sub-part's two triangles and the sub-part's blue,
\* where the root part has its own object 3 and says red under the key.
C8_Witness ==
    /\ pc = "parsed"
    /\ RootComponents = <<SubMesh>>
    /\ Len(Root.items) = 1 /\ Root.items[1].objectid = "2"
    /\ DeclaredColor(Root.groups, 1, 0) = "#FF0000"
    /\ Len(objects) = 1
    /\ objects[1].name = "sub3" /\ Len(objects[1].triangles) = 2
    /\ objects[1].color = "#0000FF"

\* The component refers to an object id the root part does not define.
IsDangling(comp) ==
    /\ comp.p_path = None
    /\ \A n \in 1..Len(Root.objects) : Root.objects[n].id # comp.objectid

\* One child of the container is dangling and the other is a mesh of the
\* root part.
OneValidOneDangling(comps) ==
    /\ Len(comps) = 2
    /\ \E j, k \in 1..2 :
           /\ j # k
           /\ IsDangling(comps[j])
           /\ comps[k].p_path = None /\ DefinesMesh(Root, comps[k].objectid)

ValidChild(comps) == comps[CHOOSE k \in 1..2 : ~IsDangling(comps[k])]

IsWarning(message) == Len(message) >= 7 /\ SubSeq(message, 1, 7) = "Warning"

\* The tolerant half of C9: the container resolves to exactly the objects
\* of its valid child and the run goes on.
DanglingSkipped ==
    \A i \in 1..Len(BuildItems) :
        (ResolvedContainer(i) /\ OneValidOneDangling(RootComponents)) =>
            /\ Len(resolved[i]) = 1
            /\ heap[resolved[i][1]].obj_id = ParseInt(ValidChild(RootComponents).objectid)
            /\ exception = None

\* C9: a container with one valid and one dangling child resolves to
\* exactly the valid child's objects, the conversion is not aborted, and
\* the skipped reference is reported to the caller as a warning.
C9_DanglingReported ==
    \A i \in 1..Len(BuildItems) :
        (ResolvedContainer(i) /\ OneValidOneDangling(RootComponents)) =>
            /\ Len(resolved[i]) = 1
            /\ heap[resolved[i][1]].obj_id = ParseInt(ValidChild(RootComponents).objectid)
            /\ exception = None
            /\ \E k \in 1..Len(reported) : IsWarning(reported[k])

\* The component names a part that is no entry of the archive.
NamesMissingPart(comp) == comp.p_path # None /\ ~NamesPart(comp)

\* C10: a component that references a part path missing from the archive
\* makes the conversion fail with the fatal PackageCorrupt error; the run
\* does not go on with the remaining components.
C10_MissingPartIsFatal ==
    \A i \in 1..Len(BuildItems) :
        (/\ pc # "open"
         /\ i <= Len(resolved) + 1
         /\ Root.items[i].objectid \in {"2", "4"}
         /\ \E j \in 1..Len(RootComponents) : NamesMissingPart(RootComponents[j]))
        => (i > Len(resolved) /\ (pc = "items" \/ exception = "PackageCorrupt"))

(***************************************************************************)
(* Claims about the whole conversion (Spec).                               *)
(***************************************************************************)
\* The run has ended in an error: an uncaught exception, or exit status 1.
FatalEnd == pc = "crashed" \/ pc = "exit 1"

\* The parser has returned.
ParserReturned == pc \in {"parsed", "exit 1", "map colors", "written"}

\* C11: a run in which a fatal condition occurs (no model part, a malformed
\* mesh field, no mesh object resolved) ends in an error state, and in every
\* error state the output archive has never been opened; an archive is
\* written only by a run that resolved at least one object.
C11_FatalBeforeOutput ==
    /\ FatalEnd => output = Unopened
    /\ (pc # "open" /\ _find_model_path(zf) = None) => pc = "crashed"
    /\ zf \in BrokenPackages => pc \in {"open", "items", "crashed"}
    /\ (ParserReturned /\ pc # "parsed" /\ objects = <<>>) => pc = "exit 1"
    /\ (output.opened \/ output.entries # <<>>)
           => (pc = "written" /\ objects # <<>> /\ exception = None)

\* A package whose single build item names no object ends without output.
C11_Witness ==
    /\ pc = "exit 1"
    /\ BuildItems # <<>>
    /\ objects = <<>>
    /\ output = Unopened

\* n ends with the model-file extension.
HasModelExtension(n) == \E k \in 0..Len(n) : n = SubSeq(n, 1, k) \o ".model"

\* i is the first entry of the archive with the model-file extension.
IsFirstModelEntry(archive, i) ==
    /\ HasModelExtension(archive[i].name)
    /\ \A j \in 1..(i - 1) : ~HasModelExtension(archive[j].name)

\* C12: once the input is opened, the main model is the entry
\* "3D/3dmodel.model" when the archive has it, at whatever position;
\* otherwise the first entry whose name ends with ".model"; with no such
\* entry the run has failed with an exception and no model is returned.
C12_RootModelSelection ==
    pc # "open" =>
        IF \E i \in 1..Len(zf) : zf[i].name = "3D/3dmodel.model"
        THEN model_path = "3D/3dmodel.model"
        ELSE IF \E i \in 1..Len(zf) : HasModelExtension(zf[i].name)
        THEN \E i \in 1..Len(zf) : IsFirstModelEntry(zf, i) /\ model_path = zf[i].name
        ELSE /\ pc = "crashed" /\ exception = "ValueError"
             /\ model_path = NotRun /\ objects = NotRun /\ ~output.opened

\* The well-known path is in the archive behind another model part, and is
\* the one that was read.
C12_Witness ==
    /\ pc = "written"
    /\ HasModelExtension(zf[1].name) /\ zf[1].name # "3D/3dmodel.model"
    /\ model_path = "3D/3dmodel.model"

\* The number of entries the build items before item i produced.
RECURSIVE EntriesBefore(_)
EntriesBefore(i) ==
    IF i = 1 THEN 0 ELSE EntriesBefore(i - 1) + Len(resolved[i - 1])

\* Two build items with different transforms led to one MeshObject.
SharedByTwoItems ==
    \E i, j \in 1..Len(resolved) :
        /\ i < j
        /\ BuildItems[i].transform # BuildItems[j].transform
        /\ \E k \in 1..Len(resolved[i]) : \E l \in 1..Len(resolved[j]) :
               resolved[i][k] = resolved[j][l]

\* C13: in the sequence parse_input_3mf returns, the k-th entry produced by
\* build item i carries the transform of build item i, for every i and k,
\* also when a later item with another transform reaches the same object.
C13_EntriesKeepTransform ==
    ParserReturned =>
        \A i \in 1..Len(resolved) : \A k \in 1..Len(resolved[i]) :
            objects[EntriesBefore(i) + k].transform = BuildItems[i].transform

\* The entries keep their item's transform while no object is shared.
UnsharedEntriesKeepTransform ==
    (ParserReturned /\ ~SharedByTwoItems) =>
        \A i \in 1..Len(resolved) : \A k \in 1..Len(resolved[i]) :
            objects[EntriesBefore(i) + k].transform = BuildItems[i].transform

\* The triangles of the mesh element whose own property is found in the
\* color map in effect (the root part's, overlaid with sub_groups).
VotingTriangles(mesh_elem, sub_groups) ==
    { t \in 1..Len(mesh_elem.triangles) :
        /\ Truthy(mesh_elem.triangles[t].pid) /\ Truthy(mesh_elem.triangles[t].p1)
        /\ OverlaidColor(ParseInt(mesh_elem.triangles[t].pid),
                         ParseInt(mesh_elem.triangles[t].p1), sub_groups) # "" }

\* The number of triangles that vote for the color.
VotesFor(mesh_elem, sub_groups, c) ==
    Cardinality({ t \in VotingTriangles(mesh_elem, sub_groups) :
                    OverlaidColor(ParseInt(mesh_elem.triangles[t].pid),
                                  ParseInt(mesh_elem.triangles[t].p1), sub_groups) = c })

\* No color has more votes than c, and c has one.
IsDominantVote(mesh_elem, sub_groups, c) ==
    /\ VotesFor(mesh_elem, sub_groups, c) > 0
    /\ \A t \in VotingTriangles(mesh_elem, sub_groups) :
           VotesFor(mesh_elem, sub_groups,
                    OverlaidColor(ParseInt(mesh_elem.triangles[t].pid),
                                  ParseInt(mesh_elem.triangles[t].p1), sub_groups))
             <= VotesFor(mesh_elem, sub_groups, c)

\* The object element declares a property that the color map holds.
HasObjectLevelColor(obj_elem, sub_groups) ==
    /\ Truthy(obj_elem.pid) /\ Truthy(obj_elem.pindex)
    /\ OverlaidColor(ParseInt(obj_elem.pid), ParseInt(obj_elem.pindex), sub_groups) # ""

\* The color is the one the precedence gives the object element.
ColorByPrecedence(c, obj_elem, sub_groups) ==
    IF HasObjectLevelColor(obj_elem, sub_groups)
    THEN c = OverlaidColor(ParseInt(obj_elem.pid), ParseInt(obj_elem.pindex), sub_groups)
    ELSE IF VotingTriangles(obj_elem.mesh[1], sub_groups) # {}
    THEN IsDominantVote(obj_elem.mesh[1], sub_groups, c)
    ELSE c = "#808080"

\* The MeshObject was built from a mesh object of the root part.
FromRootPart(r) ==
    \E n \in 1..Len(all_objects) :
        all_objects[n][2].kind = "mesh" /\ all_objects[n][2].ref = r

\* The part of the archive at the path of the sub-part.
SubPartOfArchive == zf[CHOOSE n \in 1..Len(zf) : zf[n].name = SubPath].part

\* The part a MeshObject that is not of the root part was built from: the
\* plain part for the object of its name, else the sub-part.
SourcePartOf(obj) ==
    IF obj.name = "plain3"
    THEN zf[CHOOSE n \in 1..Len(zf) : zf[n].name = PlainPath].part
    ELSE SubPartOfArchive

\* C14: every MeshObject the parser has built, from the root part or from a
\* sub-part, has the color of its object-level property when that property
\* is declared and found in the color map; else a color no other color
\* outvotes among its triangles' own properties; else "#808080".
C14_ColorPrecedence ==
    (pc \in {"items", "parsed", "exit 1", "map colors", "written"}) =>
        \A r \in 1..Len(heap) :
            IF FromRootPart(r)
            THEN ColorByPrecedence(heap[r].color,
                                   MeshElementOf(Root, DecimalText(heap[r].obj_id)), <<>>)
            ELSE ColorByPrecedence(heap[r].color,
                                   MeshElementOf(SourcePartOf(heap[r]),
                                                 DecimalText(heap[r].obj_id)),
                                   SourcePartOf(heap[r]).groups)

\* An object of the root part and one of the sub-part that declare the key
\* (1, 0), red, while two of their three triangles vote for (1, 1), green:
\* both are red.
C14_Witness ==
    /\ pc = "parsed"
    /\ Root.objects[1].mesh = <<VotingMesh>>
    /\ Root.objects[1].pid = "1" /\ Root.objects[1].pindex = "0"
    /\ DeclaredColor(Root.groups, 1, 1) = "#00FF00"
    /\ Len(objects) = 2
    /\ objects[1].color = "#FF0000" /\ objects[1].name = "object_1"
    /\ objects[2].color = "#FF0000" /\ objects[2].name = "sub3"

(***************************************************************************)
(* Claims about the Target Package Emitter (SpecWrite).                    *)
(***************************************************************************)
\* The paths of the per-object sub-parts, by object number.
ObjectPartNames ==
    << "3D/Objects/object_1.model", "3D/Objects/object_2.model",
       "3D/Objects/object_3.model", "3D/Objects/object_4.model",
       "3D/Objects/object_5.model" >>

\* The number of mesh objects the archive is written for.
EmittedCount == IF painted THEN 1 ELSE Len(objects)

\* The transform emitted object i carries: the merged object has the one
\* of the first input object.
EmittedTransform(i) == IF painted THEN objects[1].transform ELSE objects[i].transform

\* The number of entries written under the name.
EntryCount(name) ==
    Cardinality({ k \in 1..Len(output.entries) : output.entries[k].name = name })

\* The content written under the name.
EntryNamed(name) ==
    output.entries[CHOOSE k \in 1..Len(output.entries) :
                       output.entries[k].name = name].content

\* The entry lies in the directory of the per-object sub-parts.
IsObjectPart(name) == Len(name) >= 11 /\ SubSeq(name, 1, 11) = "3D/Objects/"

\* C15: the written archive holds exactly the sub-parts object_1.model to
\* object_N.model (N the number of input objects in multi-object mode, 1 in
\* painted mode), its model relationships list exactly those N paths,
\* container i of the main model references object_i.model and build item i
\* references container i with object i's transform, the identity when
\* that is empty; the content types, the root relationships, the main
\* model and the settings are written in every case.
C15_ArchiveClosed ==
    pc = "written" =>
        /\ \A i \in 1..EmittedCount : EntryCount(ObjectPartNames[i]) = 1
        /\ \A k \in 1..Len(output.entries) :
               IsObjectPart(output.entries[k].name) =>
                   \E i \in 1..EmittedCount : output.entries[k].name = ObjectPartNames[i]
        /\ EntryCount("[Content_Types].xml") = 1
        /\ EntryCount("_rels/.rels") = 1
        /\ EntryCount("3D/3dmodel.model") = 1
        /\ EntryCount("3D/_rels/3dmodel.model.rels") = 1
        /\ EntryCount("Metadata/model_settings.config") = 1
        /\ Len(EntryNamed("3D/_rels/3dmodel.model.rels")) = EmittedCount
        /\ Len(EntryNamed("3D/3dmodel.model").objects) = EmittedCount
        /\ Len(EntryNamed("3D/3dmodel.model").items) = EmittedCount
        /\ \A i \in 1..EmittedCount :
               /\ EntryNamed("3D/_rels/3dmodel.model.rels")[i].Target
                      = "/" \o ObjectPartNames[i]
               /\ EntryNamed("3D/3dmodel.model").objects[i].id = i
               /\ EntryNamed("3D/3dmodel.model").objects[i].path
                      = "/" \o ObjectPartNames[i]
               /\ EntryNamed("3D/3dmodel.model").items[i].objectid = i
               /\ EntryNamed("3D/3dmodel.model").items[i].transform
                      = (IF EmittedTransform(i) = "" THEN "1 0 0 0 1 0 0 0 1 0 0 0"
                         ELSE EmittedTransform(i))

\* Three objects written in multi-object mode, the second one placed, the
\* first one not.
C15_Witness ==
    /\ pc = "written"
    /\ painted = FALSE
    /\ Len(objects) = 3
    /\ objects[1].transform = "" /\ objects[2].transform # ""
    /\ EntryCount("3D/Objects/object_3.model") = 1
    /\ EntryNamed("3D/3dmodel.model").items[2].transform = objects[2].transform

(***************************************************************************)
(* Further claims about the Mesh Merger (SpecMerge).                       *)
(***************************************************************************)
\* C16: merge_objects_painted returns normally on the empty sequence, with
\* a merged object of no vertex, no triangle and the absent transform, and
\* an empty paint-state list; on a sequence that is not empty the merged
\* transform is the first object's.
C16_EmptyMergeReturns ==
    pc = "merged" =>
        IF objects = <<>>
        THEN /\ merge_result.exception = None
             /\ merge_result.merged.vertices = <<>>
             /\ merge_result.merged.triangles = <<>>
             /\ merge_result.merged.transform = ""
             /\ merge_result.paint_colors = <<>>
        ELSE /\ merge_result.exception = None
             /\ merge_result.merged.transform = objects[1].transform

\* On a sequence that is not empty the merger returns, and the merged
\* transform is the first object's.
MergedTransformIsFirst ==
    (pc = "merged" /\ objects # <<>>) =>
        /\ merge_result.exception = None
        /\ merge_result.merged.transform = objects[1].transform

\* On the empty sequence the merger raises ValueError.
EmptyMergeRaises ==
    (pc = "merged" /\ objects = <<>>) => merge_result.exception = "ValueError"

\* The number of vertices of the objects before object i.
VerticesBefore(objs, i) == SumVertices(SubSeq(objs, 1, i - 1))

\* C17: the merged vertex list is the concatenation of the objects' vertex
\* lists in input order, and triangle t of object i is the merged triangle
\* at the position after all triangles of the objects before it, with each
\* index raised by the number of vertices of the objects before object i.
C17_MergeKeepsOrder ==
    (pc = "merged" /\ objects # <<>>) =>
        /\ Len(Merged.vertices) = SumVertices(objects)
        /\ Len(Merged.triangles) = SumTriangles(objects)
        /\ \A i \in 1..Len(objects) :
               /\ \A v \in 1..Len(objects[i].vertices) :
                      Merged.vertices[VerticesBefore(objects, i) + v]
                          = objects[i].vertices[v]
               /\ \A t \in 1..Len(objects[i].triangles) : \A k \in 1..3 :
                      Merged.triangles[MergedPosition(objects, i, t)][k]
                          = objects[i].triangles[t][k] + VerticesBefore(objects, i)

\* Three objects of different meshes: the only triangle of the third is
\* the last merged one, raised by the five vertices before it.
C17_Witness ==
    /\ pc = "merged"
    /\ Len(objects) = 3
    /\ objects[1].name = "quad" /\ objects[2].name = "pair" /\ objects[3].name = "tri"
    /\ Len(Merged.vertices) = 8
    /\ Merged.vertices[6] = <<0, 0, 1>>
    /\ Merged.triangles[5] = <<5, 6, 7>>

(***************************************************************************)
(* Further claims about the Component Resolver (Spec).                     *)
(***************************************************************************)
\* The object element with the id in the part is a components container.
DefinesContainer(part, id) ==
    \E n \in 1..Len(part.objects) :
        part.objects[n].id = id /\ part.objects[n].components # <<>>

\* The component children of the container with the id in the part.
ChildrenOf(part, id) ==
    part.objects[CHOOSE n \in 1..Len(part.objects) :
                     part.objects[n].id = id /\ part.objects[n].components # <<>>
                ].components[1]

\* The only component of container 2 names a container of a part of the
\* archive, whose children are mesh objects of that part.
NamesSubPartContainer ==
    /\ Len(RootComponents) = 1
    /\ NamesPart(RootComponents[1])
    /\ DefinesContainer(PartNamed(RootComponents[1]), RootComponents[1].objectid)
    /\ \A c \in 1..Len(ChildrenOf(PartNamed(RootComponents[1]),
                                    RootComponents[1].objectid)) :
           /\ ChildrenOf(PartNamed(RootComponents[1]),
                         RootComponents[1].objectid)[c].p_path = None
           /\ DefinesMesh(PartNamed(RootComponents[1]),
                          ChildrenOf(PartNamed(RootComponents[1]),
                                     RootComponents[1].objectid)[c].objectid)

\* C18: a component that names, by path, a components container of a
\* sub-part resolves to the mesh objects of that container's children,
\* resolved within the sub-part, in declared order.
C18_SubPartContainerResolved ==
    \A i \in 1..Len(BuildItems) :
        (ResolvedContainer(i) /\ NamesSubPartContainer) =>
            /\ Len(resolved[i]) = Len(ChildrenOf(PartNamed(RootComponents[1]),
                                                 RootComponents[1].objectid))
            /\ \A c \in 1..Len(resolved[i]) :
                   IsSubPartObject(
                       heap[resolved[i][c]],
                       MeshElementOf(PartNamed(RootComponents[1]),
                                     ChildrenOf(PartNamed(RootComponents[1]),
                                                RootComponents[1].objectid)[c].objectid),
                       PartNamed(RootComponents[1]).groups)

\* Such a component resolves to no object at all.
SubPartContainerYieldsNothing ==
    \A i \in 1..Len(BuildItems) :
        (ResolvedContainer(i) /\ NamesSubPartContainer) => resolved[i] = <<>>

\* The part of the archive under the name.
HasPart(name) == \E n \in 1..Len(zf) : zf[n].name = name
PartAt(name) == zf[CHOOSE n \in 1..Len(zf) : zf[n].name = name].part

\* The name of the part a component refers to from the part named here.
TargetPart(here, comp) ==
    IF comp.p_path = None THEN here ELSE SubSeq(comp.p_path, 2, Len(comp.p_path))

\* More steps than the reference graph has objects.
RECURSIVE CountObjects(_)
CountObjects(archive) ==
    IF archive = <<>> THEN 0
    ELSE Len(Head(archive).part.objects) + CountObjects(Tail(archive))

\* The mesh-bearing objects reached from the object (part name, id), one
\* entry per path, depth first in declared order; a path longer than
\* steps, which only a cycle has, puts the marker "cycle" in the list.
RECURSIVE MeshPathsOfChildren(_, _, _)
RECURSIVE MeshPaths(_, _, _)
MeshPaths(here, id, steps) ==
    IF steps = 0 THEN <<[part |-> here, id |-> "cycle"]>>
    ELSE IF ~HasPart(here) THEN <<>>
    ELSE IF DefinesMesh(PartAt(here), id) THEN <<[part |-> here, id |-> id]>>
    ELSE IF DefinesContainer(PartAt(here), id)
    THEN MeshPathsOfChildren(here, ChildrenOf(PartAt(here), id), steps - 1)
    ELSE <<>>

MeshPathsOfChildren(here, comps, steps) ==
    IF comps = <<>> THEN <<>>
    ELSE MeshPaths(TargetPart(here, Head(comps)), Head(comps).objectid, steps)
         \o MeshPathsOfChildren(here, Tail(comps), steps)

\* The paths from the object of build item i.
ItemPaths(i) == MeshPaths(model_path, BuildItems[i].objectid, CountObjects(zf) + 1)

\* No cycle is reached from the object of build item i.
AcyclicFrom(i) == \A p \in 1..Len(ItemPaths(i)) : ItemPaths(i)[p].id # "cycle"

\* The part and the id of the object element a MeshObject was built from.
OriginOf(r) ==
    [part |-> IF FromRootPart(r) THEN model_path ELSE SubPath,
     id   |-> DecimalText(heap[r].obj_id)]

\* C19: while the references reached from a build item's object form no
\* cycle, resolving the item does not fail for the depth of the recursion,
\* and the list it returns has, depth first in declared order, one entry
\* for every path from the item's object to a mesh-bearing object.
C19_AcyclicResolution ==
    /\ (pc = "crashed" /\ exception = "RecursionError")
           => ~AcyclicFrom(Len(resolved) + 1)
    /\ \A i \in 1..Len(BuildItems) :
           (ResolvedContainer(i) \/ (ParserReturned /\ i <= Len(resolved))) =>
               (AcyclicFrom(i) =>
                   /\ Len(resolved[i]) = Len(ItemPaths(i))
                   /\ \A p \in 1..Len(resolved[i]) :
                          OriginOf(resolved[i][p]) = ItemPaths(i)[p])

\* Some path from the object of build item i runs through a components
\* container of a sub-part.
RECURSIVE ThroughSubContainerChildren(_, _, _)
RECURSIVE ThroughSubContainer(_, _, _)
ThroughSubContainer(here, id, steps) ==
    IF steps = 0 \/ ~HasPart(here) THEN FALSE
    ELSE IF DefinesMesh(PartAt(here), id) THEN FALSE
    ELSE IF DefinesContainer(PartAt(here), id)
    THEN \/ here # model_path
         \/ ThroughSubContainerChildren(here, ChildrenOf(PartAt(here), id), steps - 1)
    ELSE FALSE

ThroughSubContainerChildren(here, comps, steps) ==
    IF comps = <<>> THEN FALSE
    ELSE \/ ThroughSubContainer(TargetPart(here, Head(comps)), Head(comps).objectid,
                                steps)
         \/ ThroughSubContainerChildren(here, Tail(comps), steps)

\* The resolved list is the list of paths for every build item none of
\* whose paths runs through a container of a sub-part.
RootPathsResolved ==
    \A i \in 1..Len(BuildItems) :
        (ParserReturned /\ i <= Len(resolved) /\ AcyclicFrom(i)
           /\ ~ThroughSubContainer(model_path, BuildItems[i].objectid,
                                   CountObjects(zf) + 1)) =>
            /\ Len(resolved[i]) = Len(ItemPaths(i))
            /\ \A p \in 1..Len(resolved[i]) :
                   OriginOf(resolved[i][p]) = ItemPaths(i)[p]

\* The resolver was run on a build item from which a cycle is reached, and
\* the run has ended there.
EndedOnCycle ==
    /\ pc = "crashed"
    /\ model_path # NotRun
    /\ Len(resolved) < Len(BuildItems)
    /\ ~AcyclicFrom(Len(resolved) + 1)

\* C20: a build item whose component references form a cycle is never
\* resolved to a list; the run ends with the error PackageCorrupt, reported
\* to the caller, raised by a guard on the depth of the recursion.
C20_CycleRejected ==
    /\ \A i \in 1..Len(BuildItems) :
           (model_path # NotRun /\ i <= Len(resolved)) => AcyclicFrom(i)
    /\ EndedOnCycle =>
           /\ exception = "PackageCorrupt"
           /\ \E m \in 1..Len(reported) : ~IsWarning(reported[m])

\* The run on a cycle ends with the interpreter's RecursionError, and
\* nothing is reported.
CycleOverflowsStack ==
    EndedOnCycle => (exception = "RecursionError" /\ reported = <<>>)

(***************************************************************************)
(* C21: merge_objects_painted leaves its inputs unchanged.                 *)
(***************************************************************************)
\* The list object is held by one of the inputs of the call.
HeldByAnInput(list, objs) == list.input \in 1..Len(objs)

\* C21: merge_objects_painted leaves its inputs unchanged: over the call
\* every input MeshObject keeps its name, id, vertex sequence, triangle
\* sequence, color and transform, the extruder map is the same mapping,
\* and the vertex and triangle sequences of the merged object are lists
\* that no input holds.
C21_MergeLeavesInputs ==
    [][(pc = "merge" /\ pc' = "merged") =>
          /\ objects' = objects
          /\ extruder_map' = extruder_map
          /\ merge_result'.exception = None =>
                 /\ ~HeldByAnInput(merge_result'.lists.vertices, objects)
                 /\ ~HeldByAnInput(merge_result'.lists.triangles, objects)]_vars

\* A merge of several objects has returned a mesh that is longer than the
\* first input's, so a merge into the first input's lists would show.
C21_Witness ==
    /\ MergeReturned
    /\ Len(objects) >= 2
    /\ Len(Merged.vertices) > Len(objects[1].vertices)
    /\ Len(Merged.triangles) > Len(objects[1].triangles)
    /\ Len(objects[1].vertices) > 0

(***************************************************************************)
(* C22: descending into a sub-part leaves the ambient color map alone.     *)
(***************************************************************************)
\* The color the ambient map of the root part gives the key (1, 0), gray
\* when it has none: the color of the plain part's object, whose part has
\* no colors and whose triangles do not vote.
AmbientColorOfPlain ==
    LET ambient == _extract_color_map(Root.groups)
    IN  IF DictHas(ambient, <<1, 0>>) THEN DictGet(ambient, <<1, 0>>, None)
        ELSE "#808080"

\* The heap holds an object of the sub-part, colored by the sub-part's own
\* color for the key (1, 0), and after it an object of the plain part.
PlainAfterSubDescent ==
    /\ pc \in {"items", "parsed", "map colors", "written"}
    /\ \E j, k \in 1..Len(heap) :
          /\ j < k
          /\ heap[j].name = "sub3" /\ heap[j].color = "#0000FF"
          /\ heap[k].name = "plain3"

\* C22: descending into an external sub-part never changes the ambient
\* color map: the map is, after every build item, the one read from the
\* root part, and an object resolved after the descent, as a sibling
\* component or under a later build item, has the color that map gives
\* its key, never the sub-part's own color for the same key.
C22_AmbientMapKept ==
    (model_path # NotRun) =>
        /\ color_map = _extract_color_map(Root.groups)
        /\ \A k \in 1..Len(heap) :
               heap[k].name = "plain3" => heap[k].color = AmbientColorOfPlain

\* Both sub-parts were entered, the plain one after the one with the colors
\* of its own, and the run went on to its end.
C22_Witness ==
    /\ PlainAfterSubDescent
    /\ pc = "written"
    /\ Len(resolved) = 2

(***************************************************************************)
(* C23: the triangle indices of a parsed MeshObject.                       *)
(***************************************************************************)
\* Every index of every triangle of the object is an index of its vertices.
HasValidIndices(obj) ==
    \A t \in 1..Len(obj.triangles) :
        \A k \in 1..3 :
            obj.triangles[t][k] >= 0 /\ obj.triangles[t][k] < Len(obj.vertices)

\* C23: every MeshObject produced by parsing, from the root part or from a
\* sub-part, has triangles whose indices are indices of its own vertex
\* sequence, not negative and below the vertex count: a mesh with an
\* index outside that range is never turned into a MeshObject.
C23_TriangleIndicesValid ==
    (model_path # NotRun) =>
        \A r \in 1..Len(heap) : HasValidIndices(heap[r])

\* The indices of the objects parsed from meshes whose indices are valid
\* are valid: the parser copies the indices it reads.
ValidMeshesStayValid ==
    (model_path # NotRun /\ zf \notin InvalidIndexPackages) =>
        \A r \in 1..Len(heap) : HasValidIndices(heap[r])

\* A package whose mesh has an index outside the vertex list was converted
\* to the end, the object with the invalid index among the objects written.
InvalidIndexWritten ==
    /\ pc = "written"
    /\ \E k \in 1..Len(objects) : ~HasValidIndices(objects[k])

(***************************************************************************)
(* C24: the thumbnail relationship and the image entries (SpecWrite).      *)
(***************************************************************************)
\* The written root relationships name the thumbnail image as a target.
HasThumbnailRel ==
    \E k \in 1..Len(EntryNamed("_rels/.rels")) :
        EntryNamed("_rels/.rels")[k].Target = "/Metadata/plate_1.png"

\* The entry is an image: the plate image or one of the auxiliary directory.
IsImageEntry(name) ==
    \/ name = "Metadata/plate_1.png"
    \/ Len(name) >= 24 /\ SubSeq(name, 1, 24) = "Auxiliaries/.thumbnails/"

\* The number of image entries of the archive.
ImageEntryCount ==
    Cardinality({ k \in 1..Len(output.entries) : IsImageEntry(output.entries[k].name) })

\* C24: for every thumbnail mapping passed to write_bambu_3mf, in both
\* modes: when the written _rels/.rels holds the thumbnail relationship to
\* /Metadata/plate_1.png the archive holds the entry Metadata/plate_1.png,
\* and when the mapping is empty neither the relationship nor any image
\* entry is written.
C24_ThumbnailRelHasEntry ==
    (pc = "written") =>
        /\ HasThumbnailRel => EntryCount("Metadata/plate_1.png") = 1
        /\ thumbnails = <<>> => (~HasThumbnailRel /\ ImageEntryCount = 0)

\* The empty mapping writes neither the relationship nor an image, and
\* a mapping with plate_1.png writes both the relationship and the entry.
ThumbnailRelOfPlateImage ==
    (pc = "written") =>
        /\ thumbnails = <<>> => (~HasThumbnailRel /\ ImageEntryCount = 0)
        /\ DictHas(thumbnails, "plate_1.png") =>
               /\ HasThumbnailRel
               /\ EntryCount("Metadata/plate_1.png") = 1
               /\ ImageEntryCount = Len(thumbnails) + 1

\* A mapping without plate_1.png was written: the relationship is there,
\* the entry it targets is not.
DanglingThumbnailRel ==
    /\ pc = "written"
    /\ thumbnails # <<>> /\ ~DictHas(thumbnails, "plate_1.png")
    /\ HasThumbnailRel
    /\ EntryCount("Metadata/plate_1.png") = 0
    /\ ImageEntryCount = Len(thumbnails)

====
